---- MODULE Spec2Model ----
(***************************************************************************)
(* A model of the jaguar wire codec (crates/core/src/lib.rs): the writer   *)
(* JaguarSerializer, the reader JaguarDeserializer and the encodings they  *)
(* exchange.                                                               *)
(*                                                                         *)
(* Machine words.  A u64 / i64 / usize value is modelled as the set of the *)
(* positions (0 = least significant) of its 1 bits, so that the 64-bit     *)
(* width, the shifts that drop bits and the wrap-around of additions are   *)
(* those of the code.  usize is taken to be 64 bits wide (the targets the  *)
(* crate names: Solana programs, x86_64 hosts).  A byte is an integer in   *)
(* 0..255.  Byte sequences are 1-based TLA+ sequences; an offset p of the  *)
(* code is the element p + 1.                                              *)
(***************************************************************************)
EXTENDS Integers, Sequences, FiniteSets, TLC

\* ------------------------------------------------------------------ bounds

\* Encode calls issued on one writer.
MaxOps == 2
\* Decode calls issued on one reader over arbitrary input.
MaxDecodes == 2
\* Longest run of continuation bytes at the head of an arbitrary input.
MaxRun == 11
\* Longest string / byte slice / sequence handed to the writer.
MaxLen == 2

\* Longest boolean sequence of which every content is written.
MaxBools == 10
\* Floats written in a row on one writer.
MaxFloats == 4

\* ------------------------------------------------------------ machine words

\* u64: the width of the words the code computes with.
WordBits == 64

BitIdx == 0 .. (WordBits - 1)

\* 2^n for n in 0 .. 30.
Pow2(n) ==
    <<1, 2, 4, 8, 16, 32, 64, 128, 256, 512, 1024, 2048, 4096, 8192, 16384,
      32768, 65536, 131072, 262144, 524288, 1048576, 2097152, 4194304,
      8388608, 16777216, 33554432, 67108864, 134217728, 268435456,
      536870912, 1073741824>>[n + 1]

\* The word whose value is the small natural n (n < 2^31).
FromNat(n) == { i \in 0 .. 30 : (n \div Pow2(i)) % 2 = 1 }

\* The word whose value is the byte b (`b as u64`).
FromByte(b) == { i \in 0 .. 7 : (b \div Pow2(i)) % 2 = 1 }

RECURSIVE SumBits(_)
SumBits(s) ==
    IF s = {} THEN 0
    ELSE LET i == CHOOSE x \in s : TRUE IN Pow2(i) + SumBits(s \ {i})

\* The value of a word known to be below 2^31.
ToNat(v) == SumBits(v)

\* `v as u8`: the low eight bits.
AsU8(v) == SumBits(v \cap (0 .. 7))

\* v >> s on u64 (logical).
Shr(v, s) == { i - s : i \in { j \in v : j >= s } }

\* v << s on u64 / i64, s < 64: the bits shifted out are dropped.
Shl(v, s) == { i + s : i \in { j \in v : j + s < WordBits } }

\* v >> 63 on i64 (arithmetic: the sign bit fills the word).
Sar63(v) == IF (WordBits - 1) \in v THEN BitIdx ELSE {}

Xor(a, b) == (a \ b) \cup (b \ a)

Or(a, b) == a \cup b

And(a, b) == a \cap b

\* a < 0x80 on u64.
Below128(v) == v \subseteq (0 .. 6)

\* byte | 0x80.
Or80(byte) == IF byte >= 128 THEN byte ELSE byte + 128

\* byte & 0x7F.
And7F(byte) == byte % 128

\* byte & 0x80.
And80(byte) == IF byte >= 128 THEN 128 ELSE 0

\* byte & (1 << i).
AndBit(byte, i) == ((byte \div Pow2(i)) % 2) * Pow2(i)

\* The 16-bit limb k (0 = least significant) of a word, and the word that
\* has the 16-bit value x as its limb k.
Limb(v, k) == SumBits({ i - 16 * k : i \in v \cap ((16 * k) .. (16 * k + 15)) })
FromLimb(x, k) == { i + 16 * k : i \in { j \in 0 .. 15 : (x \div Pow2(j)) % 2 = 1 } }

\* a + b on 64-bit words, limb by limb with the carries: the sum modulo
\* 2^64 and the carry out.
AddWords(a, b) ==
    LET s0 == Limb(a, 0) + Limb(b, 0)
        s1 == Limb(a, 1) + Limb(b, 1) + (s0 \div 65536)
        s2 == Limb(a, 2) + Limb(b, 2) + (s1 \div 65536)
        s3 == Limb(a, 3) + Limb(b, 3) + (s2 \div 65536)
    IN  [sum |-> FromLimb(s0 % 65536, 0) \cup FromLimb(s1 % 65536, 1)
                 \cup FromLimb(s2 % 65536, 2) \cup FromLimb(s3 % 65536, 3),
         carry |-> s3 \div 65536]

\* a + b modulo 2^64.
WrappingAdd(a, b) == AddWords(a, b).sum

\* -v on i64 (two's complement).
Neg(v) == WrappingAdd(BitIdx \ v, {0})

\* a > b on unsigned words: a has a bit that b lacks, above every bit that b
\* has and a lacks (the highest bit in which they differ is a's).
Gt(a, b) == \E i \in a \ b : \A j \in b \ a : j < i

\* The sequence of n copies of x.
Repeat(x, n) == [i \in 1 .. n |-> x]

\* --------------------------------------------------------------- the writer

\* Vec::resize(n, fill) on a byte vector.
Resize(buf, n, fill) ==
    IF n <= Len(buf) THEN SubSeq(buf, 1, n)
    ELSE buf \o [i \in 1 .. (n - Len(buf)) |-> fill]

Max(a, b) == IF a >= b THEN a ELSE b

\* JaguarSerializer::with_capacity: an empty vector (capacity is not length).
NewSerializer == [buffer |-> << >>, pos |-> 0]

\* ensure_space growing to the space required and no further.
ensure_space_exact(w, needed) ==
    [w EXCEPT !.buffer = Resize(w.buffer, Max(w.pos + needed, Len(w.buffer)), 0)]

\* ensure_space with the cursor left out of the space required.
ensure_space_no_pos(w, needed) ==
    IF Len(w.buffer) < needed
    THEN [w EXCEPT !.buffer = Resize(w.buffer, Max(needed, Len(w.buffer) * 2), 0)]
    ELSE w

ensure_space(w, needed) ==
    LET required == w.pos + needed
    IN  IF Len(w.buffer) < required
        THEN [w EXCEPT !.buffer = Resize(w.buffer,
                                        Max(required, Len(w.buffer) * 2), 0)]
        ELSE w

\* *buffer.as_mut_ptr().add(off) = byte: a raw store.  Inside the vector's
\* length it replaces the element; past it the byte lands outside the
\* initialized part of the vector, whose length and contents do not change.
Store(buf, off, byte) ==
    IF off < Len(buf) THEN [buf EXCEPT ![off + 1] = byte] ELSE buf

\* The bytes stored one after the other from off on.
StoreAll(buf, off, bytes) ==
    [i \in 1 .. Len(buf) |->
        IF i - off \in 1 .. Len(bytes) THEN bytes[i - off] ELSE buf[i]]

\* ptr::copy_nonoverlapping(bytes, buffer + pos, len); pos += len.
write_bytes_unchecked(w, bytes) ==
    [buffer |-> StoreAll(w.buffer, w.pos, bytes), pos |-> w.pos + Len(bytes)]

write_u8(w, value) ==
    LET w1 == ensure_space(w, 1)
    IN  [buffer |-> Store(w1.buffer, w1.pos, value), pos |-> w1.pos + 1]

\* The loop of write_varint shifting by a whole byte.
RECURSIVE write_varint_loop_shr8(_, _, _)
write_varint_loop_shr8(w, ptr, value) ==
    IF ~Below128(value)
    THEN write_varint_loop_shr8(
             [buffer |-> Store(w.buffer, ptr, Or80(AsU8(value))),
              pos |-> w.pos + 1],
             ptr + 1, Shr(value, 8))
    ELSE [buffer |-> Store(w.buffer, ptr, AsU8(value)), pos |-> w.pos + 1]

\* The while loop of write_varint and the store that follows it.
RECURSIVE write_varint_loop(_, _, _)
write_varint_loop(w, ptr, value) ==
    IF ~Below128(value)
    THEN write_varint_loop(
             [buffer |-> Store(w.buffer, ptr, Or80(AsU8(value))),
              pos |-> w.pos + 1],
             ptr + 1, Shr(value, 7))
    ELSE [buffer |-> Store(w.buffer, ptr, AsU8(value)), pos |-> w.pos + 1]

write_varint(w, value) ==
    LET w1 == ensure_space(w, 10)
    IN  IF Below128(value)
        THEN [buffer |-> Store(w1.buffer, w1.pos, AsU8(value)),
              pos |-> w1.pos + 1]
        ELSE write_varint_loop(w1, w1.pos, value)

\* The zigzag mapping of write_signed_varint.
zigzag_encode(value) == Xor(Shl(value, 1), Sar63(value))

write_signed_varint(w, value) == write_varint(w, zigzag_encode(value))

\* JaguarSerializer::data: the bytes below the cursor.
ser_data(w) == SubSeq(w.buffer, 1, w.pos)

\* finish without the truncation.
finish_no_truncate(w) == w.buffer

\* JaguarSerializer::finish: Vec::truncate(pos) (no effect when pos is not
\* below the length), then the vector.
finish(w) == IF w.pos < Len(w.buffer) THEN SubSeq(w.buffer, 1, w.pos)
             ELSE w.buffer

\* ----------------------------------------------------------- the float forms

\* An f32 / f64 value is its raw bytes in memory order (little-endian host).
\* Numeric equality with a constant other than zero holds of that constant's
\* bit pattern alone; both zeros equal 0.0; no NaN equals anything.
F32Zero == <<0, 0, 0, 0>>
F32NegZero == <<0, 0, 0, 128>>
F32One == <<0, 0, 128, 63>>
F32NegOne == <<0, 0, 128, 191>>
F64Zero == <<0, 0, 0, 0, 0, 0, 0, 0>>
F64NegZero == <<0, 0, 0, 0, 0, 0, 0, 128>>
F64One == <<0, 0, 0, 0, 0, 0, 240, 63>>
F64NegOne == <<0, 0, 0, 0, 0, 0, 240, 191>>

write_f32(w, value) ==
    IF value \in {F32Zero, F32NegZero} THEN write_u8(w, 0)
    ELSE IF value = F32One THEN write_u8(w, 1)
    ELSE IF value = F32NegOne THEN write_u8(w, 2)
    ELSE write_bytes_unchecked(ensure_space(write_u8(w, 255), 4), value)

write_f64(w, value) ==
    IF value \in {F64Zero, F64NegZero} THEN write_u8(w, 0)
    ELSE IF value = F64One THEN write_u8(w, 1)
    ELSE IF value = F64NegOne THEN write_u8(w, 2)
    ELSE write_bytes_unchecked(ensure_space(write_u8(w, 255), 8), value)

write_bool(w, value) == write_u8(w, IF value THEN 1 ELSE 0)

\* ------------------------------------------------- length-prefixed writers

\* The UTF-8 form of one Unicode scalar value.
Utf8Char(c) ==
    IF c < 128 THEN <<c>>
    ELSE IF c < 2048 THEN <<192 + (c \div 64), 128 + (c % 64)>>
    ELSE IF c < 65536
    THEN <<224 + (c \div 4096), 128 + ((c \div 64) % 64), 128 + (c % 64)>>
    ELSE <<240 + (c \div 262144), 128 + ((c \div 4096) % 64),
           128 + ((c \div 64) % 64), 128 + (c % 64)>>

\* s.as_bytes() of a str given as its sequence of chars: the UTF-8 bytes.
RECURSIVE as_bytes(_)
as_bytes(s) == IF s = << >> THEN << >> ELSE Utf8Char(Head(s)) \o as_bytes(Tail(s))

\* write_str with the number of chars as the prefix.
write_str_char_count(w, bytes) ==
    LET w1 == write_varint(w, FromNat(Cardinality({ k \in 1 .. Len(bytes) :
                                                     bytes[k] \notin 128 .. 191 })))
    IN  write_bytes_unchecked(ensure_space(w1, Len(bytes)), bytes)

\* write_str on the UTF-8 bytes of s; write_bytes and write_u8_slice have
\* the same body.
write_str(w, bytes) ==
    LET w1 == write_varint(w, FromNat(Len(bytes)))
    IN  write_bytes_unchecked(ensure_space(w1, Len(bytes)), bytes)

write_bytes(w, bytes) ==
    LET w1 == write_varint(w, FromNat(Len(bytes)))
    IN  write_bytes_unchecked(ensure_space(w1, Len(bytes)), bytes)

write_u8_slice(w, slice) ==
    LET w1 == write_varint(w, FromNat(Len(slice)))
    IN  write_bytes_unchecked(ensure_space(w1, Len(slice)), slice)

\* The four bytes of a u32 with the most significant first.
U32BytesMsbFirst(v) == [k \in 1 .. 4 |-> AsU8(Shr(v, 8 * (4 - k)))]

\* The four bytes of a u32 in memory order (little-endian host).
U32Bytes(v) == [k \in 1 .. 4 |-> AsU8(Shr(v, 8 * (k - 1)))]

RECURSIVE Flatten(_)
Flatten(ss) == IF ss = << >> THEN << >> ELSE Head(ss) \o Flatten(Tail(ss))

write_u32_slice(w, slice) ==
    LET w1 == write_varint(w, FromNat(Len(slice)))
        bytes_needed == Len(slice) * 4
        w2 == ensure_space(w1, bytes_needed)
    IN  [buffer |-> StoreAll(w2.buffer, w2.pos,
                             Flatten([k \in 1 .. Len(slice) |-> U32Bytes(slice[k])])),
         pos |-> w2.pos + bytes_needed]

\* The packing of a chunk with the first element in the highest bit.
PackByteMsbFirst(chunk) ==
    SumBits({ 7 - i : i \in { j \in 0 .. (Len(chunk) - 1) : chunk[j + 1] } })

\* byte |= 1 << i for every true element i of a chunk of at most 8 booleans.
PackByte(chunk) ==
    SumBits({ i \in 0 .. (Len(chunk) - 1) : chunk[i + 1] })

\* The two loops of write_bool_slice: whole chunks of 8, then the rest.
RECURSIVE write_bool_chunks(_, _, _)
write_bool_chunks(w, slice, pos) ==
    IF pos + 8 <= Len(slice)
    THEN write_bool_chunks(
             [buffer |-> Store(w.buffer, w.pos,
                               PackByte(SubSeq(slice, pos + 1, pos + 8))),
              pos |-> w.pos + 1],
             slice, pos + 8)
    ELSE IF pos < Len(slice)
    THEN [buffer |-> Store(w.buffer, w.pos,
                           PackByte(SubSeq(slice, pos + 1, Len(slice)))),
          pos |-> w.pos + 1]
    ELSE w

write_bool_slice(w, slice) ==
    LET w1 == write_varint(w, FromNat(Len(slice)))
        bytes_needed == (Len(slice) + 7) \div 8
    IN  write_bool_chunks(ensure_space(w1, bytes_needed), slice, 0)

\* for &value in slice { self.write_varint(value as u64)? }.
RECURSIVE write_varint_each(_, _)
write_varint_each(w, slice) ==
    IF slice = << >> THEN w
    ELSE write_varint_each(write_varint(w, Head(slice)), Tail(slice))

\* for &value in slice { self.write_signed_varint(value as i64)? }.
RECURSIVE write_signed_varint_each(_, _)
write_signed_varint_each(w, slice) ==
    IF slice = << >> THEN w
    ELSE write_signed_varint_each(write_signed_varint(w, Head(slice)), Tail(slice))

RECURSIVE write_f32_each(_, _)
write_f32_each(w, slice) ==
    IF slice = << >> THEN w
    ELSE write_f32_each(write_f32(w, Head(slice)), Tail(slice))

RECURSIVE write_f64_each(_, _)
write_f64_each(w, slice) ==
    IF slice = << >> THEN w
    ELSE write_f64_each(write_f64(w, Head(slice)), Tail(slice))

RECURSIVE write_str_each(_, _)
write_str_each(w, vec) ==
    IF vec = << >> THEN w
    ELSE write_str_each(write_str(w, Head(vec)), Tail(vec))

\* The slice writers that write the length and then every element as the
\* scalar it is: an element is the word it widens to, the raw bytes of a
\* float, the UTF-8 bytes of a String.
write_u16_slice(w, slice) ==
    write_varint_each(write_varint(w, FromNat(Len(slice))), slice)

write_u64_slice(w, slice) ==
    write_varint_each(write_varint(w, FromNat(Len(slice))), slice)

write_i8_slice(w, slice) ==
    write_signed_varint_each(write_varint(w, FromNat(Len(slice))), slice)

write_i16_slice(w, slice) ==
    write_signed_varint_each(write_varint(w, FromNat(Len(slice))), slice)

write_i64_slice(w, slice) ==
    write_signed_varint_each(write_varint(w, FromNat(Len(slice))), slice)

write_f32_slice(w, slice) ==
    write_f32_each(write_varint(w, FromNat(Len(slice))), slice)

write_f64_slice(w, slice) ==
    write_f64_each(write_varint(w, FromNat(Len(slice))), slice)

write_string_vec(w, vec) ==
    write_str_each(write_varint(w, FromNat(Len(vec))), vec)

\* JaguarSerialize for [u8; N] with a length prefix.
serialize_u8_array_prefixed(w, arr) ==
    write_bytes_unchecked(ensure_space(write_varint(w, FromNat(Len(arr))),
                                       Len(arr)), arr)

\* JaguarSerialize for [u8; N].
serialize_u8_array(w, arr) ==
    write_bytes_unchecked(ensure_space(w, Len(arr)), arr)

\* --------------------------------------------------------------- the reader

\* A decoded value: a word (u) or a sequence (s); the other field is empty.
NoVal == [u |-> {}, s |-> << >>]
Word(v) == [u |-> v, s |-> << >>]
Sequ(q) == [u |-> {}, s |-> q]

\* What a decode call yields: the reader afterwards, Ok or the SerError
\* returned, or Panic when the call panics instead of returning.
Ok(d, val) == [de |-> d, status |-> "Ok", val |-> val]
Err(d, e) == [de |-> d, status |-> e, val |-> NoVal]
Panic(d) == [de |-> d, status |-> "Panic", val |-> NoVal]

NewDeserializer(data) == [data |-> data, pos |-> 0]

has_data(d) == d.pos < Len(d.data)

position(d) == d.pos

\* read_u8 advancing the cursor before the bounds check.
read_u8_advance_first(d) ==
    IF d.pos >= Len(d.data) THEN Err([d EXCEPT !.pos = @ + 1], "BufferTooSmall")
    ELSE Ok([d EXCEPT !.pos = @ + 1], Word(FromByte(d.data[d.pos + 1])))

\* read_u8 without the advance of the cursor.
read_u8_no_advance(d) ==
    IF d.pos >= Len(d.data) THEN Err(d, "BufferTooSmall")
    ELSE Ok(d, Word(FromByte(d.data[d.pos + 1])))

read_u8(d) ==
    IF d.pos >= Len(d.data) THEN Err(d, "BufferTooSmall")
    ELSE Ok([d EXCEPT !.pos = @ + 1], Word(FromByte(d.data[d.pos + 1])))

\* The loop of read_varint giving up one byte early (count > 8).
RECURSIVE read_varint_loop_9(_, _, _, _)
read_varint_loop_9(d, result, shift, count) ==
    IF d.pos >= Len(d.data) THEN Err(d, "BufferTooSmall")
    ELSE LET byte == d.data[d.pos + 1]
             d1 == [d EXCEPT !.pos = @ + 1]
             result1 == Or(result, Shl(FromByte(And7F(byte)), shift))
         IN  IF And80(byte) = 0 THEN Ok(d1, Word(result1))
             ELSE IF shift + 7 >= 64 \/ count + 1 > 8
                  THEN Err(d1, "InvalidData")
                  ELSE read_varint_loop_9(d1, result1, shift + 7, count + 1)

\* The loop of read_varint without the limit on the bytes of one varint.
RECURSIVE read_varint_loop_no_limit(_, _, _, _)
read_varint_loop_no_limit(d, result, shift, count) ==
    IF d.pos >= Len(d.data) THEN Err(d, "BufferTooSmall")
    ELSE LET byte == d.data[d.pos + 1]
             d1 == [d EXCEPT !.pos = @ + 1]
             result1 == Or(result, Shl(FromByte(And7F(byte)), shift))
         IN  IF And80(byte) = 0 THEN Ok(d1, Word(result1))
             ELSE read_varint_loop_no_limit(d1, result1, shift + 7, count + 1)

\* The loop of read_varint: one iteration, then the rest.
RECURSIVE read_varint_loop(_, _, _, _)
read_varint_loop(d, result, shift, count) ==
    IF d.pos >= Len(d.data) THEN Err(d, "BufferTooSmall")
    ELSE LET byte == d.data[d.pos + 1]
             d1 == [d EXCEPT !.pos = @ + 1]
             result1 == Or(result, Shl(FromByte(And7F(byte)), shift))
         IN  IF And80(byte) = 0 THEN Ok(d1, Word(result1))
             ELSE IF shift + 7 >= 64 \/ count + 1 > 9
                  THEN Err(d1, "InvalidData")
                  ELSE read_varint_loop(d1, result1, shift + 7, count + 1)

read_varint(d) == read_varint_loop(d, {}, 0, 0)

\* The zigzag inverse without the sign: the shift alone.
zigzag_decode_no_sign(encoded) == Shr(encoded, 1)

\* The zigzag inverse of read_signed_varint.
zigzag_decode(encoded) == Xor(Shr(encoded, 1), Neg(And(encoded, {0})))

read_signed_varint(d) ==
    LET r == read_varint(d)
    IN  IF r.status # "Ok" THEN r
        ELSE Ok(r.de, Word(zigzag_decode(r.val.u)))

read_bool(d) ==
    LET r == read_u8(d)
    IN  IF r.status # "Ok" THEN r
        ELSE Ok(r.de, Word(IF r.val.u # {} THEN {0} ELSE {}))

\* read_f32 / read_f64 taking every unknown marker for the long form.
read_float_any_marker(d, width, zero, one, negone) ==
    LET r == read_u8(d)
        marker == ToNat(r.val.u)
        d1 == r.de
    IN  IF r.status # "Ok" THEN r
        ELSE IF marker = 0 THEN Ok(d1, Sequ(zero))
        ELSE IF marker = 1 THEN Ok(d1, Sequ(one))
        ELSE IF marker = 2 THEN Ok(d1, Sequ(negone))
        ELSE IF d1.pos + width > Len(d1.data) THEN Err(d1, "BufferTooSmall")
        ELSE Ok([d1 EXCEPT !.pos = @ + width],
                Sequ(SubSeq(d1.data, d1.pos + 1, d1.pos + width)))

\* read_f32 (width 4) and read_f64 (width 8): the same body but for the
\* width and the three constants.
read_float(d, width, zero, one, negone) ==
    LET r == read_u8(d)
        marker == ToNat(r.val.u)
        d1 == r.de
    IN  IF r.status # "Ok" THEN r
        ELSE IF marker = 0 THEN Ok(d1, Sequ(zero))
        ELSE IF marker = 1 THEN Ok(d1, Sequ(one))
        ELSE IF marker = 2 THEN Ok(d1, Sequ(negone))
        ELSE IF marker = 255
        THEN IF d1.pos + width > Len(d1.data) THEN Err(d1, "BufferTooSmall")
             ELSE Ok([d1 EXCEPT !.pos = @ + width],
                     Sequ(SubSeq(d1.data, d1.pos + 1, d1.pos + width)))
        ELSE Err(d1, "InvalidData")

read_f32(d) == read_float(d, 4, F32Zero, F32One, F32NegOne)

read_f64(d) == read_float(d, 8, F64Zero, F64One, F64NegOne)

\* ------------------------------------------------- length-prefixed readers

\* The bytes of the sequence a lead byte opens, the lead included (0 for a
\* byte that opens none), and the values its second byte may take.
Utf8Width(x) ==
    IF x < 128 THEN 1
    ELSE IF x \in 194 .. 223 THEN 2
    ELSE IF x \in 224 .. 239 THEN 3
    ELSE IF x \in 240 .. 244 THEN 4
    ELSE 0
Utf8Second(x) ==
    IF x = 224 THEN 160 .. 191
    ELSE IF x = 237 THEN 128 .. 159
    ELSE IF x = 240 THEN 144 .. 191
    ELSE IF x = 244 THEN 128 .. 143
    ELSE 128 .. 191

\* core::str::from_utf8(slice).is_ok(): well-formed UTF-8 (no over-long
\* form, no surrogate, nothing above U+10FFFF, no truncated sequence).  The
\* first byte opens a sequence, and every byte that is not a continuation
\* byte opens one that is whole and ends where the next one opens.
from_utf8_ok(b) ==
    LET n == Len(b)
        opens(i) == b[i] \notin 128 .. 191
    IN  \/ n = 0
        \/ /\ opens(1)
           /\ \A i \in { j \in 1 .. n : opens(j) } :
                  LET w == Utf8Width(b[i])
                  IN  /\ w > 0
                      /\ i + w - 1 <= n
                      /\ w > 1 => b[i + 1] \in Utf8Second(b[i])
                      /\ \A k \in (i + 2) .. (i + w - 1) : b[k] \in 128 .. 191
                      /\ i + w <= n => opens(i + w)

\* a + b on usize: the wrapped sum and whether it overflowed.  A build with
\* overflow checks (debug) panics on overflow; one without (release) wraps.
usize_add(a, b) ==
    LET r == AddWords(a, b)
    IN  [v |-> r.sum, overflow |-> r.carry = 1]

\* a * 2^k on usize, likewise.
usize_mul_pow2(a, k) ==
    [v |-> Shl(a, k), overflow |-> \E i \in a : i + k >= WordBits]

\* Vec::<T>::with_capacity(len), size_of::<T>() = 2^k: panics with
\* "capacity overflow" when len * size_of::<T>() exceeds isize::MAX.
capacity_overflow(len, k) == \E i \in len : i + k >= WordBits - 1

\* &self.data[start..end]: panics unless start <= end <= data.len().
slice_index_panics(d, start, end) ==
    Gt(start, end) \/ Gt(end, FromNat(Len(d.data)))

\* read_str / read_bytes without the UTF-8 validation.
read_slice_unvalidated(d, validate, overflow_checks) ==
    LET r == read_varint(d)
        len == r.val.u
        d1 == r.de
        end == usize_add(FromNat(d1.pos), len)
        stop == ToNat(end.v)
    IN  IF r.status # "Ok" THEN r
        ELSE IF end.overflow /\ overflow_checks THEN Panic(d1)
        ELSE IF Gt(end.v, FromNat(Len(d1.data))) THEN Err(d1, "BufferTooSmall")
        ELSE IF slice_index_panics(d1, FromNat(d1.pos), end.v) THEN Panic(d1)
        ELSE Ok([d1 EXCEPT !.pos = stop], Sequ(SubSeq(d1.data, d1.pos + 1, stop)))

\* read_str, after the prefix: the bounds check, the slice, the cursor,
\* then the UTF-8 validation when validate is set (read_bytes has none).
read_slice(d, validate, overflow_checks) ==
    LET r == read_varint(d)
        len == r.val.u
        d1 == r.de
        end == usize_add(FromNat(d1.pos), len)
        stop == ToNat(end.v)
        slice == SubSeq(d1.data, d1.pos + 1, stop)
        d2 == [d1 EXCEPT !.pos = stop]
    IN  IF r.status # "Ok" THEN r
        ELSE IF end.overflow /\ overflow_checks THEN Panic(d1)
        ELSE IF Gt(end.v, FromNat(Len(d1.data))) THEN Err(d1, "BufferTooSmall")
        ELSE IF slice_index_panics(d1, FromNat(d1.pos), end.v) THEN Panic(d1)
        ELSE IF validate /\ ~from_utf8_ok(slice) THEN Err(d2, "InvalidData")
        ELSE Ok(d2, Sequ(slice))

read_str(d, overflow_checks) == read_slice(d, TRUE, overflow_checks)

read_bytes(d, overflow_checks) == read_slice(d, FALSE, overflow_checks)

read_u8_vec(d, overflow_checks) ==
    LET r == read_varint(d)
        len == r.val.u
        d1 == r.de
        end == usize_add(FromNat(d1.pos), len)
        stop == ToNat(end.v)
    IN  IF r.status # "Ok" THEN r
        ELSE IF end.overflow /\ overflow_checks THEN Panic(d1)
        ELSE IF Gt(end.v, FromNat(Len(d1.data))) THEN Err(d1, "BufferTooSmall")
        ELSE IF capacity_overflow(len, 0) THEN Panic(d1)
        ELSE Ok([d1 EXCEPT !.pos = stop],
                Sequ(SubSeq(d1.data, d1.pos + 1, stop)))

\* The u32 whose four bytes in memory order are b.
U32FromBytes(b) ==
    UNION { Shl(FromByte(b[k]), 8 * (k - 1)) : k \in 1 .. 4 }

read_u32_vec(d, overflow_checks) ==
    LET r == read_varint(d)
        len == r.val.u
        d1 == r.de
        bytes_needed == usize_mul_pow2(len, 2)
        end == usize_add(FromNat(d1.pos), bytes_needed.v)
        n == ToNat(len)
    IN  IF r.status # "Ok" THEN r
        ELSE IF bytes_needed.overflow /\ overflow_checks THEN Panic(d1)
        ELSE IF end.overflow /\ overflow_checks THEN Panic(d1)
        ELSE IF Gt(end.v, FromNat(Len(d1.data))) THEN Err(d1, "BufferTooSmall")
        ELSE IF capacity_overflow(len, 2) THEN Panic(d1)
        ELSE Ok([d1 EXCEPT !.pos = @ + 4 * n],
                Sequ([k \in 1 .. n |->
                        U32FromBytes(SubSeq(d1.data, d1.pos + 4 * k - 3,
                                            d1.pos + 4 * k))]))

\* The booleans read_bool_vec pushes: bit i of byte j is element 8 * j + i,
\* for the len first of them.
UnpackBools(d, len) ==
    [k \in 1 .. len |->
        AndBit(d.data[d.pos + ((k - 1) \div 8) + 1], (k - 1) % 8) # 0]

read_bool_vec(d, overflow_checks) ==
    LET r == read_varint(d)
        len == r.val.u
        d1 == r.de
        plus7 == usize_add(len, FromNat(7))
        bytes_needed == Shr(plus7.v, 3)
        end == usize_add(FromNat(d1.pos), bytes_needed)
        n == ToNat(len)
    IN  IF r.status # "Ok" THEN r
        ELSE IF plus7.overflow /\ overflow_checks THEN Panic(d1)
        ELSE IF end.overflow /\ overflow_checks THEN Panic(d1)
        ELSE IF Gt(end.v, FromNat(Len(d1.data))) THEN Err(d1, "BufferTooSmall")
        ELSE IF capacity_overflow(len, 0) THEN Panic(d1)
        ELSE Ok([d1 EXCEPT !.pos = @ + ToNat(bytes_needed)],
                Sequ(UnpackBools(d1, n)))

\* read_fixed_array::<T, N>, size = size_of::<T>(): N * size raw bytes.
read_fixed_array(d, N, size) ==
    LET bytes_needed == N * size
    IN  IF d.pos + bytes_needed > Len(d.data) THEN Err(d, "BufferTooSmall")
        ELSE Ok([d EXCEPT !.pos = @ + bytes_needed],
                Sequ(SubSeq(d.data, d.pos + 1, d.pos + bytes_needed)))

\* JaguarDeserialize for [u8; N].
deserialize_u8_array(d, N) ==
    IF d.pos + N > Len(d.data) THEN Err(d, "BufferTooSmall")
    ELSE Ok([d EXCEPT !.pos = @ + N],
            Sequ(SubSeq(d.data, d.pos + 1, d.pos + N)))

\* ------------------------------------------------------------ typed values

\* The types with a JaguarSerialize / JaguarDeserialize impl, as the schema a
\* caller names: a scalar kind, [elem; n], (A, B), or a derived struct with
\* its fields in declaration order.
Ty(kind) == [kind |-> kind, n |-> 0, args |-> << >>, names |-> << >>]
ArrayTy(elem, n) == [kind |-> "array", n |-> n, args |-> <<elem>>, names |-> << >>]
TupleTy(a, b) == [kind |-> "tuple", n |-> 2, args |-> <<a, b>>, names |-> << >>]
StructTy(names, types) ==
    [kind |-> "struct", n |-> Len(types), args |-> types, names |-> names]
VecTy(elem) == [kind |-> "vec", n |-> 0, args |-> <<elem>>, names |-> << >>]

\* impl_fixed_array!(u16, u32, u64, i8, i16, i32, i64, f32, f64, bool).
FixedArrayElems ==
    {"u16", "u32", "u64", "i8", "i16", "i32", "i64", "f32", "f64", "bool"}

\* A value of an integer type is held as the word it widens to (`as u64` of
\* an unsigned, `as i64` of a signed one); a u128 as the set of its 1 bits in
\* 0 .. 127; a bool as the word 1 or 0; a float as its raw bytes; a String
\* as its UTF-8 bytes; a [u8; N] as its bytes; any other array, a tuple or a
\* struct as the sequence of its elements' or fields' values.

\* A narrowing cast that keeps the whole word.
KeepWord(v, bits) == v

\* `v as uK` / `v as iK` of a 64-bit word, widened again: the low K bits,
\* sign-extended for a signed type.
Truncate(v, bits) == v \cap (0 .. (bits - 1))
SignExtend(v, bits) ==
    IF (bits - 1) \in v THEN Truncate(v, bits) \cup (bits .. (WordBits - 1))
    ELSE Truncate(v, bits)

\* (v >> 64) as u64 and v as u64 of a u128, and ((high as u128) << 64) | low.
U128High(v) == { i - WordBits : i \in { j \in v : j >= WordBits } }
U128Low(v) == v \cap BitIdx
U128Join(high, low) == { i + WordBits : i \in high } \cup low

RECURSIVE serialize(_, _, _)
RECURSIVE serialize_seq(_, _, _)
RECURSIVE deserialize(_, _, _)
RECURSIVE deserialize_seq(_, _, _, _)
RECURSIVE read_elements(_, _, _, _, _)

\* JaguarSerialize for u128 with the halves in the other order.
serialize_u128_low_first(w, v) ==
    write_varint(write_varint(w, U128Low(v)), U128High(v))

\* JaguarSerialize for u128.
serialize_u128(w, v) ==
    LET high == U128High(v)
        low == U128Low(v)
    IN  write_varint(write_varint(w, high), low)

\* The serialize of impl_fixed_array without the length prefix.
serialize_fixed_array_no_prefix(T, w, arr) ==
    serialize_seq(Repeat(T.args[1], T.n), w, arr)

\* The serialize of impl_fixed_array: varint(N), then every item in order.
serialize_fixed_array(T, w, arr) ==
    serialize_seq(Repeat(T.args[1], T.n), write_varint(w, FromNat(T.n)), arr)

\* The fields of a tuple or of a derived struct written last to first.
RECURSIVE serialize_seq_reversed(_, _, _)
serialize_seq_reversed(types, w, vals) ==
    IF types = << >> THEN w
    ELSE serialize(Head(types), serialize_seq_reversed(Tail(types), w, Tail(vals)),
                   Head(vals))

\* item.serialize(ser)? for every item in order: the loop of
\* impl_fixed_array, the two calls of (A, B), the statements the derive
\* emits for the fields of a struct.  No write returns an error.
serialize_seq(types, w, vals) ==
    IF types = << >> THEN w
    ELSE serialize_seq(Tail(types), serialize(Head(types), w, Head(vals)),
                       Tail(vals))

\* JaguarSerialize for Vec<T>: varint(len), then item.serialize for every
\* item in order.
serialize_vec(T, w, vec) ==
    serialize_seq(Repeat(T.args[1], Len(vec)), write_varint(w, FromNat(Len(vec))),
                  vec)

\* value.serialize(ser), dispatched on the type.
serialize(T, w, v) ==
    CASE T.kind = "u8" -> write_u8(w, ToNat(v.u))
      [] T.kind \in {"u16", "u32", "u64"} -> write_varint(w, v.u)
      [] T.kind \in {"i8", "i16", "i32", "i64"} -> write_signed_varint(w, v.u)
      [] T.kind = "f32" -> write_f32(w, v.s)
      [] T.kind = "f64" -> write_f64(w, v.s)
      [] T.kind = "bool" -> write_bool(w, v.u # {})
      [] T.kind = "String" -> write_str(w, v.s)
      [] T.kind = "u128" -> serialize_u128(w, v.u)
      [] T.kind = "array" /\ T.args[1].kind = "u8" -> serialize_u8_array(w, v.s)
      [] T.kind = "array" /\ T.args[1].kind # "u8" -> serialize_fixed_array(T, w, v.s)
      [] T.kind \in {"tuple", "struct"} -> serialize_seq(T.args, w, v.s)
      [] T.kind = "vec" -> serialize_vec(T, w, v.s)

\* Ok(de.read_varint()? as uK), Ok(de.read_signed_varint()? as iK).
deserialize_unsigned(d, bits) ==
    LET r == read_varint(d)
    IN  IF r.status # "Ok" THEN r ELSE Ok(r.de, Word(Truncate(r.val.u, bits)))

deserialize_signed(d, bits) ==
    LET r == read_signed_varint(d)
    IN  IF r.status # "Ok" THEN r ELSE Ok(r.de, Word(SignExtend(r.val.u, bits)))

\* JaguarDeserialize for u128: high, then low.
deserialize_u128(d) ==
    LET high == read_varint(d)
        low == read_varint(high.de)
    IN  IF high.status # "Ok" THEN high
        ELSE IF low.status # "Ok" THEN low
        ELSE Ok(low.de, Word(U128Join(high.val.u, low.val.u)))

\* The deserialize of impl_fixed_array without the check of the prefix.
deserialize_fixed_array_unchecked(T, d, overflow_checks) ==
    LET r == read_varint(d)
    IN  IF r.status # "Ok" THEN r
        ELSE deserialize_seq(Repeat(T.args[1], T.n), r.de, << >>, overflow_checks)

\* The deserialize of impl_fixed_array: the prefix, its check against N,
\* then N items pushed in order.
deserialize_fixed_array(T, d, overflow_checks) ==
    LET r == read_varint(d)
        len == r.val.u
    IN  IF r.status # "Ok" THEN r
        ELSE IF len # FromNat(T.n) THEN Err(r.de, "InvalidLength")
        ELSE deserialize_seq(Repeat(T.args[1], T.n), r.de, << >>, overflow_checks)

\* T::deserialize(de)? for every type in order, the values gathered in acc:
\* the first failure is returned with the cursor where it left it.
deserialize_seq(types, d, acc, overflow_checks) ==
    IF types = << >> THEN Ok(d, Sequ(acc))
    ELSE LET r == deserialize(Head(types), d, overflow_checks)
         IN  IF r.status # "Ok" THEN r
             ELSE deserialize_seq(Tail(types), r.de, Append(acc, r.val),
                                  overflow_checks)

\* size_of::<T>() = 2^k for the scalar types; a String is 24 bytes.
SizeShift(kind) ==
    CASE kind \in {"u8", "i8", "bool"} -> 0
      [] kind \in {"u16", "i16"} -> 1
      [] kind \in {"u32", "i32", "f32"} -> 2
      [] kind \in {"u64", "i64", "f64"} -> 3
      [] kind = "u128" -> 4

\* isize::MAX / 24: the most Strings a Vec can be asked to hold.
MaxStrings == { i \in 0 .. 58 : i % 2 = 0 }

\* Vec::<T>::with_capacity(len) panics with "capacity overflow": T a
\* scalar or a String.  A capacity within isize::MAX bytes is taken to be
\* allocated.
with_capacity_panics(T, len) ==
    IF T.kind = "String" THEN Gt(len, MaxStrings)
    ELSE capacity_overflow(len, SizeShift(T.kind))

\* for _ in 0..count { vec.push(<read of one T>?) }: the first failure is
\* returned with the cursor where the element's read left it.
read_elements(T, d, count, vec, overflow_checks) ==
    IF count = 0 THEN Ok(d, Sequ(vec))
    ELSE LET push(r) ==
                 IF r.status # "Ok" THEN r
                 ELSE read_elements(T, r.de, count - 1, Append(vec, r.val),
                                    overflow_checks)
         IN  push(deserialize(T, d, overflow_checks))

\* The readers of a sequence with no check of the length: read_u16_vec,
\* read_u64_vec, read_i8_vec, read_i16_vec, read_i64_vec, read_f32_vec,
\* read_f64_vec and Vec<T>::deserialize have this body, T a scalar or a
\* String.  An element takes a byte at least, so that a loop of more turns
\* than bytes are left fails by the turn after the last byte.
read_vec(T, d, overflow_checks) ==
    LET left(r) == Len(r.de.data) - r.de.pos
        turns(r) == IF Gt(r.val.u, FromNat(left(r))) THEN left(r) + 1
                    ELSE ToNat(r.val.u)
        elements(r) ==
            IF r.status # "Ok" THEN r
            ELSE IF with_capacity_panics(T, r.val.u) THEN Panic(r.de)
            ELSE read_elements(T, r.de, turns(r), << >>, overflow_checks)
    IN  elements(read_varint(d))

read_u16_vec(d, overflow_checks) == read_vec(Ty("u16"), d, overflow_checks)
read_u64_vec(d, overflow_checks) == read_vec(Ty("u64"), d, overflow_checks)
read_i8_vec(d, overflow_checks) == read_vec(Ty("i8"), d, overflow_checks)
read_i16_vec(d, overflow_checks) == read_vec(Ty("i16"), d, overflow_checks)
read_i64_vec(d, overflow_checks) == read_vec(Ty("i64"), d, overflow_checks)
read_f32_vec(d, overflow_checks) == read_vec(Ty("f32"), d, overflow_checks)
read_f64_vec(d, overflow_checks) == read_vec(Ty("f64"), d, overflow_checks)

\* read_string_vec: without the feature "std" it returns at once.
read_string_vec(d, overflow_checks, std) ==
    IF ~std THEN Err(d, "UnsupportedType")
    ELSE read_vec(Ty("String"), d, overflow_checks)

\* JaguarDeserialize for Vec<T>.
deserialize_vec(T, d, overflow_checks) == read_vec(T.args[1], d, overflow_checks)

\* T::deserialize(de), dispatched on the type.
deserialize(T, d, overflow_checks) ==
    CASE T.kind = "u8" -> read_u8(d)
      [] T.kind = "u16" -> deserialize_unsigned(d, 16)
      [] T.kind = "u32" -> deserialize_unsigned(d, 32)
      [] T.kind = "u64" -> read_varint(d)
      [] T.kind = "i8" -> deserialize_signed(d, 8)
      [] T.kind = "i16" -> deserialize_signed(d, 16)
      [] T.kind = "i32" -> deserialize_signed(d, 32)
      [] T.kind = "i64" -> read_signed_varint(d)
      [] T.kind = "f32" -> read_f32(d)
      [] T.kind = "f64" -> read_f64(d)
      [] T.kind = "bool" -> read_bool(d)
      [] T.kind = "String" -> read_str(d, overflow_checks)
      [] T.kind = "u128" -> deserialize_u128(d)
      [] T.kind = "array" /\ T.args[1].kind = "u8" -> deserialize_u8_array(d, T.n)
      [] T.kind = "array" /\ T.args[1].kind # "u8" ->
             deserialize_fixed_array(T, d, overflow_checks)
      [] T.kind \in {"tuple", "struct"} ->
             deserialize_seq(T.args, d, << >>, overflow_checks)
      [] T.kind = "vec" -> deserialize_vec(T, d, overflow_checks)

\* A deserialize that returns InvalidData when bytes are left unread.
deserialize_rejecting_rest(T, data, overflow_checks) ==
    LET res == deserialize(T, NewDeserializer(data), overflow_checks)
    IN  IF res.status = "Ok" /\ has_data(res.de)
        THEN Err(res.de, "InvalidData")
        ELSE res

\* pub fn deserialize::<T>(data): a reader made over data, T::deserialize
\* on it, and its result returned as it is; the reader is dropped with
\* whatever it has not read.
deserialize_from(T, data, overflow_checks) ==
    deserialize(T, NewDeserializer(data), overflow_checks)

\* ------------------------------------------------------------- the derives

\* The item a derive is applied to: what input.data is (a struct, an enum),
\* the form of data.fields (Named { .. }, Unnamed ( .. ), Unit) and the
\* fields in declaration order, each with its ident (NoIdent where it has
\* none) and its type.
NoIdent == ""
Field(ident, ty) == [ident |-> ident, ty |-> ty]
DeriveInput(data, form, fields) == [data |-> data, form |-> form, fields |-> fields]

\* What a derive expands to: the impl for a type, no tokens at all, or a
\* panic inside the macro, which fails the build.
Impl(ty) == [tokens |-> "impl", ty |-> ty]
NoTokens == [tokens |-> "none", ty |-> Ty("none")]
MacroPanic == [tokens |-> "panic", ty |-> Ty("none")]

\* The struct schema an emitted impl walks: the fields in declaration order.
FieldsTy(fields) ==
    StructTy([i \in 1 .. Len(fields) |-> fields[i].ident],
             [i \in 1 .. Len(fields) |-> fields[i].ty])

\* #[proc_macro_derive(JaguarSerialize)].
derive_serialize(input) ==
    IF input.data # "struct" \/ input.form = "Unit" THEN NoTokens
    ELSE IF \E i \in 1 .. Len(input.fields) : input.fields[i].ident = NoIdent
    THEN MacroPanic
    ELSE Impl(FieldsTy(input.fields))

\* #[proc_macro_derive(JaguarDeserialize)].
derive_deserialize(input) ==
    IF input.data # "struct" \/ input.form = "Unit" THEN NoTokens
    ELSE IF \E i \in 1 .. Len(input.fields) : input.fields[i].ident = NoIdent
    THEN MacroPanic
    ELSE Impl(FieldsTy(input.fields))

\* ------------------------------------------------------------------- state

VARIABLES
    ser,     \* the JaguarSerializer: [buffer, pos]
    de,      \* the JaguarDeserializer: [data, pos]
    phase,   \* "write": the writer is open; "read": it was finished and a
             \* reader walks its bytes; "fuzz": a reader walks arbitrary bytes
    log,     \* the caller's record of the encode calls since construction or
             \* reset: [op, val, n], n the bytes the call appended
    calls,   \* encode calls issued on the writer
    idx,     \* decode calls issued on the reader de while it is alone
    last,    \* the last of them: its operation, the cursor before it,
             \* its outcome and the value it returned
    build,   \* the build: whether arithmetic overflow panics (debug) or wraps
    peer,    \* a second JaguarDeserializer, over the same bytes as de
    trace    \* the decode calls issued on de and on peer while they share
             \* their bytes, per reader: [op, status, val, pos]

vars == <<ser, de, phase, log, calls, idx, last, build, peer, trace>>

Builds == [overflow_checks : BOOLEAN]

NoCall == [op |-> "none", arg |-> 0, before |-> 0, status |-> "None", val |-> NoVal]

\* ------------------------------------------------------------------ inputs

U64Max == BitIdx
I64Min == {WordBits - 1}
I64Max == 0 .. (WordBits - 2)
MinusOne == BitIdx

ByteInputs == {0, 255}
VarintInputs == { {}, {7}, U64Max }
SignedInputs == { MinusOne, I64Min }
F32Pi == <<208, 15, 73, 64>>
F32NaN == <<0, 0, 192, 127>>
F64Half == <<0, 0, 0, 0, 0, 0, 224, 63>>
F32Inputs == { F32NegZero, F32One, F32Pi }
F64Inputs == { F64NegOne, F64Half }
\* The lengths of the strings, slices and arrays handed to the writer.
Lengths == {0, MaxLen}
\* Strings of U+00E9 (two bytes each).
StrInputs == { Flatten(Repeat(<<195, 169>>, n)) : n \in Lengths }
BytesInputs == { Repeat(255, n) : n \in Lengths }
U8SliceInputs == { Repeat(128, n) : n \in Lengths }
U32SliceInputs == { Repeat({1, 10, 16, 25}, n) : n \in Lengths }
BoolSliceInputs ==
    { [i \in 1 .. n |-> i % 2 = 1] : n \in {0, 8, 8 + MaxLen} }
U8ArrayInputs == { Repeat(1, n) : n \in Lengths }

\* The N of the fixed arrays decoded.
ArraySizes == {0, 1, MaxLen}

\* Arbitrary reader input: a run of continuation bytes, then a short tail.
FuzzTails ==
    { << >>, <<0>>, <<1>>, <<2>>, <<64>>, <<1, 255>>, <<1, 0>>, <<2, 195, 169>> }
FuzzInputs ==
    { Repeat(c, k) \o t : c \in {128, 255}, k \in 0 .. MaxRun, t \in FuzzTails }

\* Sample values of the element kinds of impl_fixed_array: boundary values
\* of each width, the float short forms, a long form and a NaN.
ElemSamples(kind) ==
    CASE kind = "u16" -> <<Word({7}), Word(0 .. 15)>>
      [] kind = "u32" -> <<Word(0 .. 31), Word({0})>>
      [] kind = "u64" -> <<Word(U64Max), Word({1})>>
      [] kind = "i8" -> <<Word(7 .. (WordBits - 1)), Word(0 .. 6)>>
      [] kind = "i16" -> <<Word(MinusOne), Word(0 .. 14)>>
      [] kind = "i32" -> <<Word(31 .. (WordBits - 1)), Word({})>>
      [] kind = "i64" -> <<Word(I64Min), Word(I64Max)>>
      [] kind = "f32" -> <<Sequ(F32NegZero), Sequ(F32Pi), Sequ(F32NaN)>>
      [] kind = "f64" -> <<Sequ(F64One), Sequ(F64NegZero), Sequ(F64Half)>>
      [] kind = "bool" -> <<Word({0}), Word({})>>
      [] kind = "u8" -> <<Word(FromNat(255)), Word(FromNat(7))>>
      [] kind = "String" -> <<Sequ(<<195, 169>>), Sequ(<< >>)>>

\* A typed value: the type and the value.
Typed(ty, val) == [ty |-> ty, val |-> val]

\* [T; N] for every element kind of impl_fixed_array: the samples in turn,
\* starting at the first or at the second.
FixedArrayInputs ==
    { Typed(ArrayTy(Ty(kind), n),
            Sequ([k \in 1 .. n |->
                    ElemSamples(kind)[((k - 1 + off) % Len(ElemSamples(kind))) + 1]])) :
        kind \in FixedArrayElems, n \in ArraySizes, off \in {0, 1} }

\* [u32; 4] = [1, 2, 3, 4] and [bool; 8] = [true, false, ...].
TestArrayInputs ==
    { Typed(ArrayTy(Ty("u32"), 4), Sequ([k \in 1 .. 4 |-> Word(FromNat(k))])),
      Typed(ArrayTy(Ty("bool"), 8),
            Sequ([k \in 1 .. 8 |-> Word(IF k % 2 = 1 THEN {0} ELSE {})])) }

\* [u8; N]: [1; 32] among them.
ByteArrayInputs ==
    { Typed(ArrayTy(Ty("u8"), n), Sequ(Repeat(1, n))) : n \in ArraySizes \cup {32} }
    \cup { Typed(ArrayTy(Ty("u8"), MaxLen), Sequ([k \in 1 .. MaxLen |-> 255 - k])) }

\* u128: every single bit, every run of low bits, every run of high bits.
U128Bits == 0 .. (2 * WordBits - 1)
U128Max == U128Bits
U128Inputs ==
    { Typed(Ty("u128"), Word(v)) :
        v \in { {i} : i \in U128Bits } \cup { 0 .. i : i \in U128Bits }
              \cup { i .. (2 * WordBits - 1) : i \in U128Bits } \cup { {} } }

\* struct { a: u8, b: String, c: (u16, u32), d: [u8; 2] }.
RecordTy ==
    StructTy(<<"a", "b", "c", "d">>,
             <<Ty("u8"), Ty("String"), TupleTy(Ty("u16"), Ty("u32")),
               ArrayTy(Ty("u8"), 2)>>)

\* { a: 0x2A, b: "x", c: (128, 25600), d: [9, 9] }.
RecordValue ==
    Sequ(<<Word(FromNat(42)), Sequ(<<120>>),
           Sequ(<<Word(FromNat(128)), Word(FromNat(25600))>>), Sequ(<<9, 9>>)>>)

\* struct { inner: struct { flag: bool, delta: i32 }, tag: (String, u64) }.
NestedTy ==
    StructTy(<<"inner", "tag">>,
             <<StructTy(<<"flag", "delta">>, <<Ty("bool"), Ty("i32")>>),
               TupleTy(Ty("String"), Ty("u64"))>>)

TupleInputs ==
    { Typed(TupleTy(Ty("u16"), Ty("u32")),
            Sequ(<<Word(FromNat(128)), Word(FromNat(25600))>>)),
      Typed(TupleTy(Ty("u16"), Ty("u32")), Sequ(<<Word(0 .. 15), Word({})>>)),
      Typed(TupleTy(Ty("u8"), Ty("bool")), Sequ(<<Word(FromNat(255)), Word({0})>>)) }

StructInputs ==
    { Typed(NestedTy,
            Sequ(<<Sequ(<<Word(IF b THEN {0} ELSE {}), Word(x)>>),
                   Sequ(<<Sequ(t), Word(y)>>)>>)) :
        b \in BOOLEAN, x \in { 31 .. (WordBits - 1), {5} },
        t \in StrInputs, y \in { {}, U64Max } }

\* The integer types written as a varint and those written as a signed
\* varint, with their widths.
UnsignedKinds == {"u16", "u32", "u64"}
SignedKinds == {"i8", "i16", "i32", "i64"}
Width(kind) ==
    CASE kind = "i8" -> 8
      [] kind \in {"u16", "i16"} -> 16
      [] kind \in {"u32", "i32"} -> 32
      [] kind \in {"u64", "i64"} -> WordBits

\* The types a reader asks for over the bytes of a value of type ty: ty
\* itself and, of an array, the same element type with other sizes, of an
\* integer, the integer types of every width written the same way.
DecodeTypes(ty) ==
    IF ty.kind = "array"
    THEN { ArrayTy(ty.args[1], n) : n \in ArraySizes \cup {ty.n, ty.n + 1} }
    ELSE IF ty.kind \in UnsignedKinds THEN { Ty(k) : k \in UnsignedKinds }
    ELSE IF ty.kind \in SignedKinds THEN { Ty(k) : k \in SignedKinds }
    ELSE {ty}

\* Boolean sequences: every content up to MaxBools elements, and the
\* pattern i % 3 = 0 at lengths around a second chunk and a second prefix byte.
RECURSIVE BoolSeqs(_)
BoolSeqs(n) ==
    IF n = 0 THEN { << >> }
    ELSE BoolSeqs(n - 1) \cup
         { Append(q, b) : q \in { x \in BoolSeqs(n - 1) : Len(x) = n - 1 },
                          b \in BOOLEAN }
BoolWideInputs ==
    BoolSeqs(MaxBools)
    \cup { [i \in 1 .. n |-> (i - 1) % 3 = 0] : n \in {16, 17, 127, 128, 129} }

\* true, false, true, ... of length 10.
Alternating10 == [i \in 1 .. 10 |-> i % 2 = 1]

\* Floats: both zeros, the short forms, long forms, NaNs.
F64NaN == <<0, 0, 0, 0, 0, 0, 248, 127>>
F32Wide == { F32Zero, F32NegZero, F32One, F32NegOne, F32Pi, F32NaN }
F64Wide == { F64Zero, F64NegZero, F64One, F64NegOne, F64Half, F64NaN }

\* A marker byte and eight bytes after it, for every marker.
MarkerInputs == { <<m, 1, 2, 3, 4, 5, 6, 7, 8>> : m \in 0 .. 255 }

\* Strings, as their chars: "Hello, world! " and U+1F680 among them, chars
\* of one to four bytes, and strings of 127 and 128 bytes, the latter with
\* a two-byte prefix.
HelloWorld ==
    <<72, 101, 108, 108, 111, 44, 32, 119, 111, 114, 108, 100, 33, 32, 128640>>
StrWideInputs ==
    { << >>, <<120>>, <<233>>, <<8364>>, <<128640>>, <<97, 233, 8364, 128640>>,
      <<127, 128, 2047, 2048, 65535, 65536, 1114111>>, <<55295, 57344>>,
      HelloWorld, <<97>> \o Repeat(233, 63), Repeat(233, 64) }

\* Payloads that are not UTF-8: a lone continuation byte, a truncated
\* sequence, over-long forms, a surrogate, a value above U+10FFFF, bytes that
\* never occur, a lead byte followed by a non-continuation.
BadUtf8 ==
    { <<128>>, <<195>>, <<226, 130>>, <<240, 159, 154>>, <<192, 128>>,
      <<193, 191>>, <<224, 128, 128>>, <<240, 128, 128, 128>>,
      <<237, 160, 128>>, <<244, 144, 128, 128>>, <<245, 128, 128, 128>>,
      <<255>>, <<254>>, <<195, 40>>, <<97, 128>>, <<226, 130, 40>>,
      <<97, 195, 169, 255>> }

\* A length-delimited payload, UTF-8 or not, and a byte after it: what a
\* reader of strings or byte slices is handed.
PayloadInputs ==
    { <<Len(q)>> \o q \o t :
        q \in BadUtf8 \cup { as_bytes(x) : x \in { y \in StrWideInputs : Len(y) <= 15 } },
        t \in { << >>, <<0>> } }

\* ------------------------------------------------------------ the writer's calls

Init ==
    /\ ser = NewSerializer
    /\ de = NewDeserializer(<< >>)
    /\ phase = "write"
    /\ log = << >>
    /\ calls = 0
    /\ idx = 0
    /\ last = NoCall
    /\ build \in Builds
    /\ peer = NewDeserializer(<< >>)
    /\ trace = << << >>, << >> >>

\* One encode call that leaves the writer as w2.
Encode(op, val, w2) ==
    /\ phase = "write"
    /\ calls < MaxOps
    /\ ser' = w2
    /\ log' = Append(log, [op |-> op, val |-> val, n |-> w2.pos - ser.pos])
    /\ calls' = calls + 1
    /\ UNCHANGED <<de, phase, idx, last, build, peer, trace>>

WriteU8 == \E b \in ByteInputs : Encode("u8", Word(FromNat(b)), write_u8(ser, b))

WriteBool ==
    \E b \in BOOLEAN :
        Encode("bool", Word(IF b THEN {0} ELSE {}), write_bool(ser, b))

WriteVarint == \E v \in VarintInputs : Encode("varint", Word(v), write_varint(ser, v))

WriteSignedVarint ==
    \E v \in SignedInputs :
        Encode("signed_varint", Word(v), write_signed_varint(ser, v))

WriteF32 == \E v \in F32Inputs : Encode("f32", Sequ(v), write_f32(ser, v))

WriteF64 == \E v \in F64Inputs : Encode("f64", Sequ(v), write_f64(ser, v))

WriteStr == \E v \in StrInputs : Encode("str", Sequ(v), write_str(ser, v))

WriteBytes == \E v \in BytesInputs : Encode("bytes", Sequ(v), write_bytes(ser, v))

WriteU8Slice ==
    \E v \in U8SliceInputs : Encode("u8_vec", Sequ(v), write_u8_slice(ser, v))

WriteU32Slice ==
    \E v \in U32SliceInputs : Encode("u32_vec", Sequ(v), write_u32_slice(ser, v))

WriteBoolSlice ==
    \E v \in BoolSliceInputs : Encode("bool_vec", Sequ(v), write_bool_slice(ser, v))

SerializeU8Array ==
    \E v \in U8ArrayInputs : Encode("u8_array", Sequ(v), serialize_u8_array(ser, v))

\* A reset that leaves the cursor where it is.
reset_keep_pos(w) == w

\* JaguarSerializer::reset.  The caller starts its record afresh.
reset(w) == [w EXCEPT !.pos = 0]

Reset ==
    /\ phase = "write"
    /\ ser' = reset(ser)
    /\ log' = << >>
    /\ UNCHANGED <<de, phase, calls, idx, last, build, peer, trace>>

\* finish(), and a reader constructed over the bytes it returned.
Finish ==
    /\ phase = "write"
    /\ phase' = "read"
    /\ de' = NewDeserializer(finish(ser))
    /\ UNCHANGED <<ser, log, calls, idx, last, build, peer, trace>>

\* ------------------------------------------------------------ the reader's calls

\* The decode call (op, arg) is the one that matches the encode call e.
\* arg is the N of a fixed array, 0 elsewhere.
Matches(e, op, arg) ==
    IF op \in {"u8_array", "fixed_array_u8"}
    THEN e.op = "u8_array" /\ arg = Len(e.val.s)
    ELSE e.op = op /\ arg = 0

\* One decode call with outcome r: any call on arbitrary input, the matching
\* call, in order, on a finished writer's bytes.  A panic ends the run.
Decode(op, arg, r) ==
    /\ last.status # "Panic"
    /\ \/ phase = "fuzz" /\ idx < MaxDecodes
       \/ phase = "read" /\ idx < Len(log) /\ Matches(log[idx + 1], op, arg)
    /\ LET res == r
       IN  /\ de' = res.de
           /\ last' = [op |-> op, arg |-> arg, before |-> de.pos,
                       status |-> res.status, val |-> res.val]
    /\ idx' = idx + 1
    /\ UNCHANGED <<ser, phase, log, calls, build, peer, trace>>

ReadU8 == Decode("u8", 0, read_u8(de))
ReadBool == Decode("bool", 0, read_bool(de))
ReadVarint == Decode("varint", 0, read_varint(de))
ReadSignedVarint == Decode("signed_varint", 0, read_signed_varint(de))
ReadF32 == Decode("f32", 0, read_f32(de))
ReadF64 == Decode("f64", 0, read_f64(de))
ReadStr == Decode("str", 0, read_str(de, build.overflow_checks))
ReadBytes == Decode("bytes", 0, read_bytes(de, build.overflow_checks))
ReadU8Vec == Decode("u8_vec", 0, read_u8_vec(de, build.overflow_checks))
ReadU32Vec == Decode("u32_vec", 0, read_u32_vec(de, build.overflow_checks))
ReadBoolVec == Decode("bool_vec", 0, read_bool_vec(de, build.overflow_checks))
DeserializeU8Array ==
    \E N \in ArraySizes : Decode("u8_array", N, deserialize_u8_array(de, N))
ReadFixedArrayU8 ==
    \E N \in ArraySizes : Decode("fixed_array_u8", N, read_fixed_array(de, N, 1))
ReadFixedArrayU32 ==
    \E N \in ArraySizes : Decode("fixed_array_u32", N, read_fixed_array(de, N, 4))

\* ---------------------------------------------------------- specifications

\* A writer driven through encode calls and resets, finished, and its bytes
\* read back by the matching decode calls.
Next ==
    \/ WriteU8 \/ WriteBool \/ WriteVarint \/ WriteSignedVarint
    \/ WriteF32 \/ WriteF64 \/ WriteStr \/ WriteBytes
    \/ WriteU8Slice \/ WriteU32Slice \/ WriteBoolSlice \/ SerializeU8Array
    \/ Reset \/ Finish
    \/ ReadU8 \/ ReadBool \/ ReadVarint \/ ReadSignedVarint
    \/ ReadF32 \/ ReadF64 \/ ReadStr \/ ReadBytes
    \/ ReadU8Vec \/ ReadU32Vec \/ ReadBoolVec
    \/ DeserializeU8Array \/ ReadFixedArrayU8

Spec == Init /\ [][Next]_vars

\* A reader over arbitrary bytes, driven through any decode calls.
InitFuzz ==
    /\ ser = NewSerializer
    /\ de \in { NewDeserializer(x) : x \in FuzzInputs }
    /\ phase = "fuzz"
    /\ log = << >>
    /\ calls = 0
    /\ idx = 0
    /\ last = NoCall
    /\ build \in Builds
    /\ peer = NewDeserializer(<< >>)
    /\ trace = << << >>, << >> >>

NextFuzz ==
    \/ ReadU8 \/ ReadBool \/ ReadVarint \/ ReadSignedVarint
    \/ ReadF32 \/ ReadF64 \/ ReadStr \/ ReadBytes
    \/ ReadU8Vec \/ ReadU32Vec \/ ReadBoolVec
    \/ DeserializeU8Array \/ ReadFixedArrayU8 \/ ReadFixedArrayU32

SpecFuzz == InitFuzz /\ [][NextFuzz]_vars

\* One varint or signed varint, over a wide family of words, written on a
\* fresh writer, finished and read back.
WordInputs ==
    LET runs == { i .. j : i \in BitIdx, j \in BitIdx }
    IN  runs \cup { BitIdx \ r : r \in runs }

WriteVarintWide ==
    /\ phase = "write" /\ calls = 0
    /\ \E v \in WordInputs : Encode("varint", Word(v), write_varint(ser, v))

WriteSignedVarintWide ==
    /\ phase = "write" /\ calls = 0
    /\ \E v \in WordInputs :
           Encode("signed_varint", Word(v), write_signed_varint(ser, v))

NextVarint ==
    \/ WriteVarintWide \/ WriteSignedVarintWide
    \/ Finish
    \/ ReadVarint \/ ReadSignedVarint

SpecVarint == Init /\ [][NextVarint]_vars

\* One typed value serialized on a fresh writer, the writer finished, and
\* the bytes read back through deserialize calls of the types DecodeTypes
\* names.
SerializeValue(inputs) ==
    /\ phase = "write" /\ calls = 0
    /\ \E x \in inputs :
           LET w2 == serialize(x.ty, ser, x.val)
           IN  /\ ser' = w2
               /\ log' = Append(log, [op |-> "value", ty |-> x.ty,
                                      val |-> x.val, n |-> w2.pos - ser.pos])
    /\ calls' = calls + 1
    /\ UNCHANGED <<de, phase, idx, last, build, peer, trace>>

SerializeFixedArray == SerializeValue(FixedArrayInputs \cup TestArrayInputs)
SerializeByteArray == SerializeValue(ByteArrayInputs)
SerializeU128 == SerializeValue(U128Inputs)
SerializeTuple == SerializeValue(TupleInputs)
SerializeRecord == SerializeValue({Typed(RecordTy, RecordValue)})
SerializeStruct == SerializeValue(StructInputs)

DeserializeValue ==
    /\ phase = "read" /\ Len(log) > 0 /\ idx < MaxDecodes
    /\ last.status # "Panic"
    /\ \E T \in DecodeTypes(log[1].ty) :
           LET res == deserialize(T, de, build.overflow_checks)
           IN  /\ de' = res.de
               /\ last' = [op |-> "value", arg |-> T, before |-> de.pos,
                           status |-> res.status, val |-> res.val]
    /\ idx' = idx + 1
    /\ UNCHANGED <<ser, phase, log, calls, build, peer, trace>>

NextTyped ==
    \/ SerializeFixedArray \/ SerializeByteArray \/ SerializeU128
    \/ SerializeTuple \/ SerializeRecord \/ SerializeStruct
    \/ Finish
    \/ DeserializeValue

SpecTyped == Init /\ [][NextTyped]_vars

\* One boolean sequence written on a fresh writer, finished and read back.
WriteBoolSliceWide ==
    /\ phase = "write" /\ calls = 0
    /\ \E v \in BoolWideInputs :
           Encode("bool_vec", Sequ(v), write_bool_slice(ser, v))

NextBool == WriteBoolSliceWide \/ Finish \/ ReadBoolVec

SpecBool == Init /\ [][NextBool]_vars

\* JaguarDeserializer::new over bytes that no writer of this run produced.
NewReader(inputs) ==
    /\ phase = "write" /\ calls = 0
    /\ \E x \in inputs : de' = NewDeserializer(x)
    /\ phase' = "fuzz"
    /\ UNCHANGED <<ser, log, calls, idx, last, build, peer, trace>>

\* One float written: up to MaxFloats in a row, all of one width.
EncodeFloat(op, val, w2) ==
    /\ phase = "write"
    /\ Len(log) < MaxFloats
    /\ log # << >> => log[1].op = op
    /\ ser' = w2
    /\ log' = Append(log, [op |-> op, val |-> val, n |-> w2.pos - ser.pos])
    /\ calls' = calls + 1
    /\ UNCHANGED <<de, phase, idx, last, build, peer, trace>>

WriteF32Wide == \E v \in F32Wide : EncodeFloat("f32", Sequ(v), write_f32(ser, v))

WriteF64Wide == \E v \in F64Wide : EncodeFloat("f64", Sequ(v), write_f64(ser, v))

NewMarkerReader == NewReader(MarkerInputs)

\* Floats written in a row, finished and read back; and floats read from a
\* marker byte of every value.
NextFloat ==
    \/ WriteF32Wide \/ WriteF64Wide
    \/ Finish
    \/ NewMarkerReader
    \/ ReadF32 \/ ReadF64

SpecFloat == Init /\ [][NextFloat]_vars

\* One string written on a fresh writer, finished and read back; and
\* strings and byte slices read from payloads of every content.
WriteStrWide ==
    /\ phase = "write" /\ calls = 0
    /\ \E s \in StrWideInputs :
           Encode("str", Sequ(as_bytes(s)), write_str(ser, as_bytes(s)))

NewPayloadReader == NewReader(PayloadInputs)

NextStr ==
    \/ WriteStrWide
    \/ Finish
    \/ NewPayloadReader
    \/ ReadStr \/ ReadBytes \/ ReadU8Vec

SpecStr == Init /\ [][NextStr]_vars

\* Items that carry both derives, each with a value of the item: structs
\* of every form without fields, with one field and with two, and an enum.
DeriveInputs ==
    { [input |-> DeriveInput("struct", "Unit", << >>), val |-> Sequ(<< >>)],
      [input |-> DeriveInput("struct", "Named", << >>), val |-> Sequ(<< >>)],
      [input |-> DeriveInput("struct", "Unnamed", << >>), val |-> Sequ(<< >>)],
      [input |-> DeriveInput("enum", "Unit", << >>), val |-> Sequ(<< >>)],
      [input |-> DeriveInput("struct", "Unnamed", <<Field(NoIdent, Ty("u8"))>>),
       val |-> Sequ(<<Word(FromNat(7))>>)] }
    \cup { [input |-> DeriveInput("struct", "Named", <<Field("a", Ty("u16"))>>),
            val |-> Sequ(<<Word(v)>>)] : v \in { {}, 0 .. 15 } }
    \cup { [input |-> DeriveInput("struct", "Named",
                                  <<Field("flag", Ty("bool")), Field("n", Ty("i32"))>>),
            val |-> Sequ(<<Word(b), Word(v)>>)] :
             b \in { {}, {0} }, v \in { {5}, 31 .. (WordBits - 1) } }

\* An item declared with #[derive(JaguarSerialize, JaguarDeserialize)] and,
\* where the derive emitted an impl, a value of it serialized.
DeriveSerialize ==
    /\ phase = "write"
    /\ calls < MaxOps
    /\ \E x \in DeriveInputs :
           LET impl == derive_serialize(x.input)
               w2 == IF impl.tokens = "impl" THEN serialize(impl.ty, ser, x.val)
                     ELSE ser
           IN  /\ ser' = w2
               /\ log' = Append(log, [op |-> "derive", input |-> x.input,
                                      tokens |-> impl.tokens, val |-> x.val,
                                      n |-> w2.pos - ser.pos])
    /\ calls' = calls + 1
    /\ UNCHANGED <<de, phase, idx, last, build, peer, trace>>

\* The items read back in the order they were written, each through the
\* impl the derive emitted for it, where it emitted one.
DeriveDeserialize ==
    /\ phase = "read"
    /\ idx < Len(log)
    /\ last.status # "Panic"
    /\ LET impl == derive_deserialize(log[idx + 1].input)
           res == IF impl.tokens = "impl"
                  THEN deserialize(impl.ty, de, build.overflow_checks)
                  ELSE [status |-> "NoImpl", de |-> de, val |-> NoVal]
       IN  /\ de' = res.de
           /\ last' = [op |-> "derive", arg |-> idx + 1, before |-> de.pos,
                       status |-> res.status, val |-> res.val]
    /\ idx' = idx + 1
    /\ UNCHANGED <<ser, phase, log, calls, build, peer, trace>>

NextDerive == DeriveSerialize \/ Finish \/ DeriveDeserialize

SpecDerive == Init /\ [][NextDerive]_vars

\* The decode call named op on the reader d.
Call(op, d, overflow_checks) ==
    CASE op = "u8" -> read_u8(d)
      [] op = "bool" -> read_bool(d)
      [] op = "varint" -> read_varint(d)
      [] op = "signed_varint" -> read_signed_varint(d)
      [] op = "f32" -> read_f32(d)
      [] op = "f64" -> read_f64(d)
      [] op = "str" -> read_str(d, overflow_checks)
      [] op = "bytes" -> read_bytes(d, overflow_checks)
      [] op = "u8_vec" -> read_u8_vec(d, overflow_checks)
      [] op = "u32_vec" -> read_u32_vec(d, overflow_checks)
      [] op = "bool_vec" -> read_bool_vec(d, overflow_checks)

\* A decode call on one of two readers that keep one cursor between them.
CallOnSharedCursor(readers, i, op, overflow_checks) ==
    LET res == Call(op, readers[i], overflow_checks)
    IN  [readers |-> [j \in 1 .. 2 |-> [readers[j] EXCEPT !.pos = res.de.pos]],
         status |-> res.status, val |-> res.val]

\* A decode call on reader i of two: the method takes &mut self, the
\* instance with its own pos and its shared borrow of the bytes.
CallOn(readers, i, op, overflow_checks) ==
    LET res == Call(op, readers[i], overflow_checks)
    IN  [readers |-> [readers EXCEPT ![i] = res.de],
         status |-> res.status, val |-> res.val]

\* The bytes two readers share: a string and two short floats; a long-form
\* float and a two-byte varint; a varint that never ends.
SharedInputs ==
    { <<2, 195, 169, 1, 2>>,
      <<255, 208, 15, 73, 64, 128, 1, 0>>,
      <<1, 255, 255, 255, 255, 255, 255, 255, 255, 255, 255, 255>> }

\* The calls issued on the readers that share their bytes.
SharedCalls == {"u8", "varint", "f32", "str"}

\* JaguarDeserializer::new, twice over the same bytes.
InitShared ==
    /\ ser = NewSerializer
    /\ \E x \in SharedInputs :
           /\ de = NewDeserializer(x)
           /\ peer = NewDeserializer(x)
    /\ phase = "shared"
    /\ log = << >>
    /\ calls = 0
    /\ idx = 0
    /\ last = NoCall
    /\ build \in Builds
    /\ trace = << << >>, << >> >>

\* One decode call on reader i, whatever the other reader has done so far.
\* A panic ends the thread of the reader that made the call.
SharedDecode(i) ==
    /\ phase = "shared"
    /\ Len(trace[i]) < MaxDecodes
    /\ trace[i] # << >> => trace[i][Len(trace[i])].status # "Panic"
    /\ \E op \in SharedCalls :
           \E r \in {CallOn(<<de, peer>>, i, op, build.overflow_checks)} :
               /\ de' = r.readers[1]
               /\ peer' = r.readers[2]
               /\ trace' = [trace EXCEPT ![i] =
                               Append(@, [op |-> op, status |-> r.status,
                                          val |-> r.val, pos |-> r.readers[i].pos])]
    /\ UNCHANGED <<ser, phase, log, calls, idx, last, build>>

DecodeOnFirst == SharedDecode(1)

DecodeOnSecond == SharedDecode(2)

NextShared == DecodeOnFirst \/ DecodeOnSecond

SpecShared == InitShared /\ [][NextShared]_vars

\* u32 values: the ends of the range, the values around every change of
\* the number of varint bytes, and a value with four different bytes.
U32Samples ==
    { {}, {0}, 0 .. 6, {7}, 0 .. 13, {14}, 0 .. 20, {21}, 0 .. 27, {28},
      0 .. 31, {2, 9, 16, 17, 24} }

\* Sequences of up to MaxLen u32 values.
U32WideInputs ==
    UNION { [1 .. n -> U32Samples] : n \in 0 .. MaxLen }

\* One u32 slice written on a fresh writer, finished and read back.
WriteU32SliceWide ==
    /\ phase = "write" /\ calls = 0
    /\ \E v \in U32WideInputs :
           Encode("u32_vec", Sequ(v), write_u32_slice(ser, v))

NextU32 == WriteU32SliceWide \/ Finish \/ ReadU32Vec

SpecU32 == Init /\ [][NextU32]_vars

\* 64-bit words: every run of 1 bits between two of the bit positions next
\* to a width or to a varint group, and every complement of one.
EdgeBits == {0, 6, 7, 8, 14, 15, 16, 30, 31, 32, 62, 63}
EdgeWords ==
    LET runs == { i .. j : i \in EdgeBits, j \in EdgeBits }
    IN  runs \cup { BitIdx \ r : r \in runs }

\* Values of every integer type, each as the word it widens to: `as u64`
\* of an unsigned value, `as i64` of a signed one.
ScalarInputs ==
    UNION { { Typed(Ty(k), Word(w)) :
                w \in { x \in EdgeWords : x \subseteq 0 .. (Width(k) - 1) } } :
            k \in UnsignedKinds }
    \cup
    UNION { { Typed(Ty(k), Word(w)) :
                w \in { x \in EdgeWords :
                          LET high == (Width(k) - 1) .. (WordBits - 1)
                          IN  high \subseteq x \/ high \cap x = {} } } :
            k \in SignedKinds }

SerializeScalar == SerializeValue(ScalarInputs)

\* One integer serialized on a fresh writer, finished, and read back as an
\* integer of its own or of another width.
NextScalar == SerializeScalar \/ Finish \/ DeserializeValue

SpecScalar == Init /\ [][NextScalar]_vars

\* The element types of the sequences read: those with a slice writer of
\* their own.
VecElems == <<"u8", "u16", "u32", "u64", "i8", "i16", "i64", "f32", "f64",
              "bool", "String">>

ReadU16Vec == Decode("u16_vec", 0, read_u16_vec(de, build.overflow_checks))
ReadU64Vec == Decode("u64_vec", 0, read_u64_vec(de, build.overflow_checks))
ReadI8Vec == Decode("i8_vec", 0, read_i8_vec(de, build.overflow_checks))
ReadI16Vec == Decode("i16_vec", 0, read_i16_vec(de, build.overflow_checks))
ReadI64Vec == Decode("i64_vec", 0, read_i64_vec(de, build.overflow_checks))
ReadF32Vec == Decode("f32_vec", 0, read_f32_vec(de, build.overflow_checks))
ReadF64Vec == Decode("f64_vec", 0, read_f64_vec(de, build.overflow_checks))

\* read_string_vec, in a build with the feature "std" or without it.
ReadStringVec ==
    \E std \in BOOLEAN :
        Decode("string_vec", 0, read_string_vec(de, build.overflow_checks, std))

\* Vec::<T>::deserialize, T the element type VecElems[k].
DeserializeVec ==
    \E k \in 1 .. Len(VecElems) :
        Decode("vec", k,
               deserialize(VecTy(Ty(VecElems[k])), de, build.overflow_checks))

\* Sequences cut short and whole: a prefix of 3 before two bytes, of 2
\* before one long-form float and a marker, of 2 before one string and the
\* prefix of another, of 1 before nothing, of 2 before half a varint, of 5
\* before two bytes; the empty sequence; two elements and a byte after them;
\* a prefix of 2^63.
VecFuzzInputs ==
    { <<3, 1, 2>>, <<2, 255, 1, 2, 3, 4, 255, 9>>, <<2, 1, 97, 5>>, <<1>>,
      <<2, 128>>, <<5, 0, 0>>, <<0>>, <<2, 1, 2, 7>>,
      Repeat(128, 9) \o <<1, 1>> }

InitVecFuzz ==
    /\ ser = NewSerializer
    /\ de \in { NewDeserializer(x) : x \in VecFuzzInputs }
    /\ phase = "fuzz"
    /\ log = << >>
    /\ calls = 0
    /\ idx = 0
    /\ last = NoCall
    /\ build \in Builds
    /\ peer = NewDeserializer(<< >>)
    /\ trace = << << >>, << >> >>

\* A reader over arbitrary bytes driven through the decoders of sequences.
NextVecFuzz ==
    \/ ReadStr \/ ReadBytes \/ ReadU8Vec \/ ReadU32Vec \/ ReadBoolVec
    \/ ReadU16Vec \/ ReadU64Vec \/ ReadI8Vec \/ ReadI16Vec \/ ReadI64Vec
    \/ ReadF32Vec \/ ReadF64Vec \/ ReadStringVec \/ DeserializeVec

SpecVecFuzz == InitVecFuzz /\ [][NextVecFuzz]_vars

\* An element as the slice writers take it: a byte, a bool, the word of an
\* integer, the raw bytes of a float, the UTF-8 bytes of a String.
SliceElem(kind, v) ==
    CASE kind = "u8" -> ToNat(v.u)
      [] kind = "bool" -> v.u # {}
      [] kind \in {"f32", "f64", "String"} -> v.s
      [] OTHER -> v.u

\* The slice writer of an element type.
write_slice_of(kind, w, slice) ==
    CASE kind = "u8" -> write_u8_slice(w, slice)
      [] kind = "u16" -> write_u16_slice(w, slice)
      [] kind = "u32" -> write_u32_slice(w, slice)
      [] kind = "u64" -> write_u64_slice(w, slice)
      [] kind = "i8" -> write_i8_slice(w, slice)
      [] kind = "i16" -> write_i16_slice(w, slice)
      [] kind = "i64" -> write_i64_slice(w, slice)
      [] kind = "f32" -> write_f32_slice(w, slice)
      [] kind = "f64" -> write_f64_slice(w, slice)
      [] kind = "bool" -> write_bool_slice(w, slice)
      [] kind = "String" -> write_string_vec(w, slice)

\* The vector reader of an element type.
read_vec_of(kind, d, overflow_checks, std) ==
    CASE kind = "u8" -> read_u8_vec(d, overflow_checks)
      [] kind = "u16" -> read_u16_vec(d, overflow_checks)
      [] kind = "u32" -> read_u32_vec(d, overflow_checks)
      [] kind = "u64" -> read_u64_vec(d, overflow_checks)
      [] kind = "i8" -> read_i8_vec(d, overflow_checks)
      [] kind = "i16" -> read_i16_vec(d, overflow_checks)
      [] kind = "i64" -> read_i64_vec(d, overflow_checks)
      [] kind = "f32" -> read_f32_vec(d, overflow_checks)
      [] kind = "f64" -> read_f64_vec(d, overflow_checks)
      [] kind = "bool" -> read_bool_vec(d, overflow_checks)
      [] kind = "String" -> read_string_vec(d, overflow_checks, std)

\* Sequences of up to MaxLen + 1 elements of every element type with a
\* slice writer: the samples in turn, from the first or from the second.
VecInputs ==
    { [kind |-> VecElems[k],
       val |-> Sequ([i \in 1 .. n |->
                       ElemSamples(VecElems[k])[((i - 1 + off) % 2) + 1]])] :
        k \in 1 .. Len(VecElems), n \in 0 .. (MaxLen + 1), off \in {0, 1} }

\* A sequence written on a fresh writer through the slice writer of its
\* element type, or through the serialize of Vec<T>.
WriteSequence(path, x, w2) ==
    /\ phase = "write" /\ calls = 0
    /\ ser' = w2
    /\ log' = Append(log, [op |-> path, kind |-> x.kind, val |-> x.val,
                           n |-> w2.pos - ser.pos])
    /\ calls' = calls + 1
    /\ UNCHANGED <<de, phase, idx, last, build, peer, trace>>

WriteSliceOf ==
    \E x \in VecInputs :
        WriteSequence("slice", x,
                      write_slice_of(x.kind, ser,
                                     [i \in 1 .. Len(x.val.s) |->
                                         SliceElem(x.kind, x.val.s[i])]))

SerializeVec ==
    \E x \in VecInputs :
        WriteSequence("vec", x, serialize(VecTy(Ty(x.kind)), ser, x.val))

\* The sequence read back through the vector reader of its element type
\* (String: in a build with the feature "std"), or through the deserialize
\* of Vec<T>.
ReadSequence(path, r) ==
    /\ phase = "read" /\ Len(log) = 1 /\ idx < MaxDecodes
    /\ last.status # "Panic"
    /\ LET res == r
       IN  /\ de' = res.de
           /\ last' = [op |-> path, arg |-> 0, before |-> de.pos,
                       status |-> res.status, val |-> res.val]
    /\ idx' = idx + 1
    /\ UNCHANGED <<ser, phase, log, calls, build, peer, trace>>

ReadVecOf ==
    ReadSequence("slice", read_vec_of(log[1].kind, de, build.overflow_checks, TRUE))

DeserializeVecOf ==
    ReadSequence("vec", deserialize(VecTy(Ty(log[1].kind)), de,
                                    build.overflow_checks))

NextVec == WriteSliceOf \/ SerializeVec \/ Finish \/ ReadVecOf \/ DeserializeVecOf

SpecVec == Init /\ [][NextVec]_vars

\* The bytes handed to the top-level deserialize: what serialize gives of
\* tuples, records, arrays, sequences and strings, and bytes that are the
\* whole of no value.
DataOf(inputs) ==
    { finish(serialize(x.ty, NewSerializer, x.val)) : x \in inputs }
DataInputs ==
    DataOf(TupleInputs) \cup DataOf(TestArrayInputs) \cup DataOf(ByteArrayInputs)
    \cup DataOf({Typed(RecordTy, RecordValue)})
    \cup UNION { DataOf({ Typed(VecTy(Ty(kind)), v.val) :
                            v \in { y \in VecInputs : y.kind = kind } }) :
                  kind \in {"u16", "bool", "String"} }
    \cup DataOf({ Typed(Ty("String"), Sequ(t)) : t \in StrInputs })
    \cup DataOf({ Typed(Ty("f64"), Sequ(f)) : f \in {F64Half, F64NaN} })
    \cup { << >>, <<128>>, <<128, 0>>, <<255, 1>>, <<2, 195>>, <<255, 0, 0>>,
           <<3, 1, 0>>, <<200, 1, 7>> }

\* What follows the bytes in the slice handed over.
ExtraInputs == { <<0>>, <<255>>, <<128, 1>>, <<1, 2, 3, 4, 5, 6, 7, 8, 9>> }

\* The types the slice is decoded as.
DataTypes ==
    { Ty("u8"), Ty("u16"), Ty("u64"), Ty("i32"), Ty("bool"), Ty("f32"),
      Ty("f64"), Ty("String"), Ty("u128"),
      ArrayTy(Ty("u8"), MaxLen), ArrayTy(Ty("u32"), 4), ArrayTy(Ty("bool"), 8),
      TupleTy(Ty("u16"), Ty("u32")), RecordTy,
      VecTy(Ty("u16")), VecTy(Ty("bool")), VecTy(Ty("String")) }

\* Two slices, the second the first followed by extra bytes.
InitData ==
    /\ ser = NewSerializer
    /\ \E d \in DataInputs, extra \in ExtraInputs :
           /\ peer = NewDeserializer(d)
           /\ de = NewDeserializer(d \o extra)
    /\ phase = "data"
    /\ log = << >>
    /\ calls = 0
    /\ idx = 0
    /\ last = NoCall
    /\ build \in Builds
    /\ trace = << << >>, << >> >>

\* deserialize::<T> of the first slice and of the second.
DeserializeData ==
    /\ phase = "data" /\ idx = 0
    /\ \E T \in DataTypes :
           LET alone == deserialize_from(T, peer.data, build.overflow_checks)
               longer == deserialize_from(T, de.data, build.overflow_checks)
               result(r) == [op |-> "value", status |-> r.status,
                             val |-> r.val, pos |-> r.de.pos]
           IN  /\ peer' = alone.de
               /\ de' = longer.de
               /\ trace' = << <<result(alone)>>, <<result(longer)>> >>
               /\ last' = [op |-> "value", arg |-> T, before |-> 0,
                           status |-> longer.status, val |-> longer.val]
    /\ idx' = 1
    /\ UNCHANGED <<ser, phase, log, calls, build>>

NextData == DeserializeData

SpecData == InitData /\ [][NextData]_vars

\* ------------------------------------------------------------------ claims

\* The value a decode returns for an encoded value: the value itself, but
\* for -0.0, which is written as marker 0 and so read back as +0.0.
Normalized(e) ==
    IF e.op = "f32" /\ e.val.s = F32NegZero THEN Sequ(F32Zero)
    ELSE IF e.op = "f64" /\ e.val.s = F64NegZero THEN Sequ(F64Zero)
    ELSE e.val

\* C1: a reader over the bytes finish() returned, issuing the matching
\* decode calls in order, gets back each encoded value (-0.0 as +0.0), each
\* decode advancing the cursor by the number of bytes its encode appended;
\* after the last one position() is the data length and has_data() is false.
C1_RoundTrip ==
    phase = "read" =>
        /\ idx > 0 =>
            /\ last.status = "Ok"
            /\ last.val = Normalized(log[idx])
            /\ position(de) = last.before + log[idx].n
        /\ idx = Len(log) => position(de) = Len(de.data) /\ ~has_data(de)

C1_Witness ==
    /\ phase = "read" /\ idx = 2 /\ Len(log) = 2
    /\ log[1].op = "f32" /\ log[1].val.s = F32NegZero
    /\ log[2].op = "str" /\ Len(log[2].val.s) > 0
    /\ last.status = "Ok" /\ ~has_data(de)

\* C2: read_varint over the bytes of write_varint(v) returns Ok(v) and
\* consumes exactly the bytes write_varint appended, for every word v drawn.
C2_VarintRoundTrip ==
    (phase = "read" /\ last.op = "varint") =>
        /\ last.status = "Ok"
        /\ last.val.u = log[1].val.u
        /\ position(de) - last.before = log[1].n
        /\ position(de) = Len(de.data)

C2_Witness ==
    /\ phase = "read" /\ last.op = "varint" /\ last.status = "Ok"
    /\ log[1].val.u = U64Max /\ last.val.u = U64Max /\ position(de) = 10

\* The little-endian base-128 form of a word, in closed form: as many 7-bit
\* groups as reach its highest 1 bit (one for zero), each but the last with
\* the continuation bit.
NGroups(v) ==
    IF v = {} THEN 1 ELSE ((CHOOSE m \in v : \A x \in v : x <= m) \div 7) + 1
Group(v, k) == SumBits({ i - 7 * k : i \in v \cap ((7 * k) .. (7 * k + 6)) })
Base128(v) ==
    [k \in 1 .. NGroups(v) |->
        Group(v, k - 1) + (IF k < NGroups(v) THEN 128 ELSE 0)]

\* C3: write_varint(v) appends the little-endian base-128 form of v: 1 to
\* 10 bytes, every byte but the last with the MSB set and the last with it
\* clear; 0 gives the byte 0x00, 127 one byte, 128 and 16383 two, 16384
\* three, 2^64 - 1 ten.
C3_VarintEncoding ==
    (phase = "write" /\ Len(log) = 1 /\ log[1].op = "varint") =>
        LET v == log[1].val.u
            out == ser_data(ser)
            n == Len(out)
        IN  /\ out = Base128(v)
            /\ n = log[1].n
            /\ n \in 1 .. 10
            /\ \A k \in 1 .. (n - 1) : out[k] >= 128
            /\ out[n] < 128
            /\ v = {} => out = <<0>>
            /\ v = 0 .. 6 => n = 1
            /\ v = {7} => n = 2
            /\ v = 0 .. 13 => n = 2
            /\ v = {14} => n = 3
            /\ v = U64Max => n = 10

C3_Witness ==
    /\ phase = "write" /\ Len(log) = 1 /\ log[1].op = "varint"
    /\ log[1].val.u = U64Max
    /\ ser_data(ser) = <<255, 255, 255, 255, 255, 255, 255, 255, 255, 1>>

\* The bytes the last decode call consumed.
Consumed == SubSeq(de.data, last.before + 1, de.pos)

\* The positions of the 1 bits of the base-128 number a varint's bytes spell,
\* at whatever width.
PayloadBits(bytes) ==
    UNION { { 7 * (k - 1) + j : j \in FromByte(And7F(bytes[k])) } :
            k \in 1 .. Len(bytes) }

\* C4: read_varint never returns Ok for bytes whose base-128 value does not
\* fit in 64 bits.
C4_NoOverflowAccepted ==
    (last.op = "varint" /\ last.status = "Ok") =>
        PayloadBits(Consumed) \subseteq BitIdx

\* The ten bytes at the cursor of the last call all have the MSB set.
TenContinuationBytes ==
    /\ last.before + 10 <= Len(de.data)
    /\ \A k \in 1 .. 10 : de.data[last.before + k] >= 128

\* C5: read_varint over ten bytes that all have the continuation bit returns
\* InvalidData having read those ten bytes and no eleventh, whatever follows;
\* no call of read_varint reads more than ten bytes.
C5_TenByteLimit ==
    last.op = "varint" =>
        /\ position(de) - last.before <= 10
        /\ TenContinuationBytes =>
              last.status = "InvalidData" /\ position(de) = last.before + 10

C5_Witness ==
    /\ last.op = "varint" /\ TenContinuationBytes
    /\ last.status = "InvalidData"
    /\ Len(de.data) > last.before + 10
    /\ position(de) = last.before + 10

\* The zigzag image of a word, in closed form: 2v for v >= 0, -2v - 1 for
\* v < 0, that is, the bits moved up by one, all flipped for a negative v.
ZigZag(v) ==
    LET up == { i + 1 : i \in v \ {WordBits - 1} }
    IN  IF (WordBits - 1) \in v THEN BitIdx \ up ELSE up

\* C6: read_signed_varint over the bytes of write_signed_varint(v) returns
\* v, for every word v drawn (i64::MIN and i64::MAX among them); 0 is
\* written as 0x00, -1 as 0x01, 1 as 0x02, -2 as 0x03, and 2147483647 in at
\* most 5 bytes.
C6_SignedRoundTrip ==
    /\ (phase = "write" /\ Len(log) = 1 /\ log[1].op = "signed_varint") =>
          LET v == log[1].val.u
              out == ser_data(ser)
          IN  /\ out = Base128(ZigZag(v))
              /\ v = {} => out = <<0>>
              /\ v = MinusOne => out = <<1>>
              /\ v = {0} => out = <<2>>
              /\ v = 1 .. (WordBits - 1) => out = <<3>>
              /\ v = 0 .. 30 => Len(out) <= 5
    /\ (phase = "read" /\ last.op = "signed_varint") =>
          /\ last.status = "Ok"
          /\ last.val.u = log[1].val.u
          /\ position(de) = Len(de.data)

C6_Witness ==
    /\ phase = "read" /\ last.op = "signed_varint" /\ last.status = "Ok"
    /\ log[1].val.u = I64Min /\ last.val.u = I64Min
    /\ de.data = <<255, 255, 255, 255, 255, 255, 255, 255, 255, 1>>

\* The decoders that read a length prefix and then a payload sized by it.
LengthPrefixed == {"str", "bytes", "u8_vec", "u32_vec", "bool_vec"}

\* The length prefix the last call decoded at its cursor.
Prefix == read_varint([data |-> de.data, pos |-> last.before])

\* The payload bytes a prefix L stands for, for a prefix below 2^20.
PayloadSize(op, L) ==
    IF op = "u32_vec" THEN 4 * L
    ELSE IF op = "bool_vec" THEN (L + 7) \div 8
    ELSE L

\* The payload a prefix stands for exceeds the bytes left after the prefix
\* (a prefix of 2^20 or more exceeds whatever is left of these inputs).
PayloadExceeds(op, L, left) ==
    \/ \E i \in L : i >= 20
    \/ PayloadSize(op, ToNat(L)) > left

C8_CursorBounded == 0 <= position(de) /\ position(de) <= Len(de.data)

C8_Witness ==
    /\ idx = 2
    /\ last.status = "BufferTooSmall"
    /\ last.before > 0 /\ last.before < Len(de.data)
    /\ position(de) = Len(de.data)

\* The decode calls of a fixed array of no element.
EmptyArray ==
    last.op \in {"u8_array", "fixed_array_u8", "fixed_array_u32"} /\ last.arg = 0

\* C9, as stated: every decode call that returns Ok leaves the cursor
\* greater than it was, fixed arrays of every N included.
C9_StrictAdvance == last.status = "Ok" => position(de) > last.before

\* C9, amended: every decode call that returns Ok leaves the cursor greater
\* than it was, but for a fixed array of no element, which returns Ok with
\* the cursor where it was; a fixed array of N elements advances it by N
\* times the element size.
C9_AdvanceUnlessEmpty ==
    last.status = "Ok" =>
        /\ ~EmptyArray => position(de) > last.before
        /\ EmptyArray => position(de) = last.before
        /\ last.op \in {"u8_array", "fixed_array_u8"} =>
              position(de) = last.before + last.arg
        /\ last.op = "fixed_array_u32" => position(de) = last.before + 4 * last.arg

C9_Witness ==
    /\ last.status = "Ok" /\ last.op = "fixed_array_u32" /\ last.arg = 1
    /\ last.before > 0
    /\ position(de) = last.before + 4

\* C10: the write cursor never passes the buffer's physical length, and
\* finish() returns a vector as long as the cursor whose bytes are those
\* written below it.
C10_WriterBounds ==
    /\ ser.pos <= Len(ser.buffer)
    /\ phase = "read" =>
          /\ Len(de.data) = ser.pos
          /\ \A i \in 1 .. ser.pos : de.data[i] = ser.buffer[i]

C10_Witness ==
    /\ phase = "read"
    /\ calls = 2
    /\ Len(log) = 1
    /\ ser.pos > 1 /\ ser.pos < Len(ser.buffer)
    /\ Len(ser.buffer) > 10

\* The last call deserialized a fixed array of a non-byte element kind.
FixedArrayCall ==
    /\ last.op = "value" /\ last.arg.kind = "array"
    /\ last.arg.args[1].kind \in FixedArrayElems

\* C11: decoding [T; N], T not u8, over bytes whose varint prefix M differs
\* from N returns Err(InvalidLength) with the cursor just after the prefix.
C11_InvalidLength ==
    (/\ FixedArrayCall
     /\ Prefix.status = "Ok"
     /\ Prefix.val.u # FromNat(last.arg.n))
        => /\ last.status = "InvalidLength"
           /\ position(de) = Prefix.de.pos

C11_Witness ==
    /\ FixedArrayCall
    /\ log[1].ty.n >= 1 /\ last.arg.n = log[1].ty.n + 1
    /\ last.status = "InvalidLength"
    /\ position(de) = 1 /\ has_data(de)

\* The bytes a value of type T takes when written alone on a fresh writer.
Encoding(T, v) == finish(serialize(T, NewSerializer, v))

\* The value read back for a written float: +0.0 for -0.0, else the value.
NormalizedFloat(kind, v) ==
    IF kind = "f32" /\ v.s = F32NegZero THEN Sequ(F32Zero)
    ELSE IF kind = "f64" /\ v.s = F64NegZero THEN Sequ(F64Zero)
    ELSE v

\* The first decode asked for the type that was written, a fixed array of a
\* non-byte element kind.
FixedArrayReadBack ==
    /\ phase = "read" /\ idx = 1 /\ FixedArrayCall /\ last.arg = log[1].ty

\* [T; N], T not u8, is written as varint(N) and then the scalar encodings
\* of its N elements in index order, a bool taking one byte.
FixedArrayLayout ==
    (Len(log) = 1 /\ log[1].ty.kind = "array"
     /\ log[1].ty.args[1].kind \in FixedArrayElems) =>
        LET T == log[1].ty
            elems == log[1].val.s
        IN  /\ ser_data(ser) =
                   Base128(FromNat(T.n))
                   \o Flatten([k \in 1 .. T.n |-> Encoding(T.args[1], elems[k])])
            /\ T.args[1].kind = "bool" => Len(ser_data(ser)) = 1 + T.n

\* C12, as stated: [T; N], T not u8, is written as varint(N) and the N
\* element encodings in index order, and decoding those bytes as [T; N]
\* returns the original array.
C12_ArrayRoundTrip ==
    /\ FixedArrayLayout
    /\ FixedArrayReadBack =>
          /\ last.status = "Ok"
          /\ last.val = log[1].val
          /\ position(de) = Len(de.data)

\* C12, amended: the same, the array read back being the original with
\* every f32 / f64 element -0.0 replaced by +0.0.
C12_ArrayRoundTripNormalized ==
    /\ FixedArrayLayout
    /\ FixedArrayReadBack =>
          /\ last.status = "Ok"
          /\ last.val =
                 Sequ([k \in 1 .. last.arg.n |->
                         NormalizedFloat(last.arg.args[1].kind, log[1].val.s[k])])
          /\ position(de) = Len(de.data)

C12_Witness ==
    /\ FixedArrayReadBack /\ last.status = "Ok"
    /\ last.arg = ArrayTy(Ty("f32"), MaxLen)
    /\ log[1].val.s[1] = Sequ(F32NegZero) /\ last.val.s[1] = Sequ(F32Zero)
    /\ last.val.s[2] = Sequ(F32Pi)
    /\ SubSeq(de.data, 1, 7) = <<MaxLen, 0, 255>> \o F32Pi

\* The last call deserialized a [u8; N].
ByteArrayCall ==
    /\ last.op = "value" /\ last.arg.kind = "array"
    /\ last.arg.args[1].kind = "u8"

\* C13: [u8; N] is written as its N bytes and nothing else; decoding them
\* as [u8; N] returns the array and advances the cursor by N; decoding a
\* [u8; N] with fewer than N bytes left returns BufferTooSmall with the
\* cursor where it was.
C13_ByteArray ==
    /\ (Len(log) = 1 /\ log[1].ty.kind = "array" /\ log[1].ty.args[1].kind = "u8") =>
          /\ ser_data(ser) = log[1].val.s
          /\ log[1].n = log[1].ty.n
    /\ (phase = "read" /\ ByteArrayCall) =>
          IF last.before + last.arg.n > Len(de.data)
          THEN last.status = "BufferTooSmall" /\ position(de) = last.before
          ELSE /\ last.status = "Ok"
               /\ position(de) = last.before + last.arg.n
               /\ last.val.s = SubSeq(de.data, last.before + 1,
                                      last.before + last.arg.n)
               /\ (idx = 1 /\ last.arg = log[1].ty) => last.val = log[1].val

C13_Witness ==
    /\ phase = "read" /\ ByteArrayCall
    /\ de.data = Repeat(1, 32)
    /\ last.arg.n = 32 /\ last.before > 0
    /\ last.status = "BufferTooSmall" /\ position(de) = last.before

\* Bit i (0 = least significant) of a byte.
BitOf(byte, i) == (byte \div Pow2(i)) % 2 = 1

\* C14: write_bool_slice on n booleans appends varint(n) and ceil(n/8)
\* bytes, bit i of byte j holding element 8j + i and the unused high bits of
\* the last byte being zero: varint_len(n) + ceil(n/8) bytes, fewer than n
\* for n > 8; read_bool_vec over them returns the n booleans; ten
\* alternating true, false, ... are written as 0x0A 0x55 0x01.
C14_BoolPacking ==
    (Len(log) = 1 /\ log[1].op = "bool_vec") =>
        LET v == log[1].val.s
            n == Len(v)
            out == ser_data(ser)
            p == Len(Base128(FromNat(n)))
            packed == (n + 7) \div 8
        IN  /\ Len(out) = p + packed
            /\ SubSeq(out, 1, p) = Base128(FromNat(n))
            /\ \A j \in 0 .. (packed - 1) : \A i \in 0 .. 7 :
                   BitOf(out[p + j + 1], i) = (8 * j + i < n /\ v[8 * j + i + 1])
            /\ n > 8 => Len(out) < n
            /\ v = Alternating10 => out = <<10, 85, 1>>
            /\ (phase = "read" /\ idx = 1) =>
                  /\ last.status = "Ok"
                  /\ last.val.s = v
                  /\ position(de) = Len(de.data)

C14_Witness ==
    /\ phase = "read" /\ idx = 1 /\ last.op = "bool_vec" /\ last.status = "Ok"
    /\ log[1].val.s = Alternating10 /\ last.val.s = Alternating10
    /\ de.data = <<10, 85, 1>>

\* The bytes the last encode call appended.
LastWritten == SubSeq(ser.buffer, ser.pos - log[Len(log)].n + 1, ser.pos)

\* The form of a float: a marker alone for both zeros, 1.0 and -1.0, else
\* the marker 0xFF and the raw bytes.
FloatForm(v, zero, negzero, one, negone) ==
    IF v \in {zero, negzero} THEN <<0>>
    ELSE IF v = one THEN <<1>>
    ELSE IF v = negone THEN <<2>>
    ELSE <<255>> \o v

\* What a float read at a marker byte must be, for a reader with the marker
\* at its cursor: the three constants, the raw bytes after 0xFF when they
\* are all there, InvalidData for every other marker.
FloatReadAsMarked(width, zero, one, negone) ==
    LET marker == de.data[last.before + 1]
        body == SubSeq(de.data, last.before + 2, last.before + 1 + width)
    IN  /\ marker = 0 => last.status = "Ok" /\ last.val.s = zero
        /\ marker = 1 => last.status = "Ok" /\ last.val.s = one
        /\ marker = 2 => last.status = "Ok" /\ last.val.s = negone
        /\ (marker = 255 /\ last.before + 1 + width <= Len(de.data)) =>
              /\ last.status = "Ok" /\ last.val.s = body
              /\ position(de) = last.before + 1 + width
        /\ marker \in 0 .. 2 => position(de) = last.before + 1
        /\ marker \notin {0, 1, 2, 255} => last.status = "InvalidData"

\* C15: write_f32 / write_f64 append 0x00 for +0.0 and -0.0, 0x01 for 1.0,
\* 0x02 for -1.0, else (NaN included) 0xFF and the raw 4 / 8 bytes;
\* read_f32 / read_f64 return +0.0, 1.0, -1.0 for the markers 0, 1, 2, the
\* bytes after the marker 0xFF unchanged, and InvalidData for any other
\* marker; 0.0, 1.0, -1.0, 3.14159 as f32 take 8 bytes, 00 01 02 FF first.
C15_FloatMarkers ==
    /\ (log # << >> /\ log[Len(log)].op = "f32") =>
          LastWritten = FloatForm(log[Len(log)].val.s,
                                  F32Zero, F32NegZero, F32One, F32NegOne)
    /\ (log # << >> /\ log[Len(log)].op = "f64") =>
          LastWritten = FloatForm(log[Len(log)].val.s,
                                  F64Zero, F64NegZero, F64One, F64NegOne)
    /\ (Len(log) = 4 /\ log[1].op = "f32"
        /\ [k \in 1 .. 4 |-> log[k].val.s] = <<F32Zero, F32One, F32NegOne, F32Pi>>) =>
          ser_data(ser) = <<0, 1, 2, 255>> \o F32Pi /\ Len(ser_data(ser)) = 8
    /\ (last.op = "f32" /\ last.before < Len(de.data)) =>
          FloatReadAsMarked(4, F32Zero, F32One, F32NegOne)
    /\ (last.op = "f64" /\ last.before < Len(de.data)) =>
          FloatReadAsMarked(8, F64Zero, F64One, F64NegOne)

C15_Witness ==
    /\ phase = "read" /\ idx = 4 /\ Len(log) = 4
    /\ [k \in 1 .. 4 |-> log[k].val.s] = <<F32Zero, F32One, F32NegOne, F32Pi>>
    /\ de.data = <<0, 1, 2, 255>> \o F32Pi
    /\ last.op = "f32" /\ last.status = "Ok" /\ last.val.s = F32Pi
    /\ position(de) = 8

\* C16: write_str(s) appends varint(b) and the b bytes of s, b the byte
\* length of s and not its number of chars; read_str over them returns s
\* and consumes them all.
C16_StrRoundTrip ==
    (Len(log) = 1 /\ log[1].op = "str") =>
        LET bytes == log[1].val.s
        IN  /\ ser_data(ser) = Base128(FromNat(Len(bytes))) \o bytes
            /\ \A s \in StrWideInputs :
                   (as_bytes(s) = bytes /\ Len(s) # Len(bytes)) =>
                       SubSeq(ser_data(ser), 1, Len(Base128(FromNat(Len(s)))))
                           # Base128(FromNat(Len(s)))
            /\ (phase = "read" /\ idx = 1) =>
                  /\ last.status = "Ok"
                  /\ last.val.s = bytes
                  /\ position(de) = Len(de.data)

C16_Witness ==
    /\ phase = "read" /\ idx = 1 /\ last.op = "str" /\ last.status = "Ok"
    /\ log[1].val.s = as_bytes(Repeat(233, 64))
    /\ SubSeq(de.data, 1, 4) = <<128, 1, 195, 169>>
    /\ last.val.s = as_bytes(Repeat(233, 64))
    /\ position(de) = 130

\* "Hello, world! " and U+1F680 was written and nothing else.
HelloWritten == Len(log) = 1 /\ log[1].op = "str" /\ log[1].val.s = as_bytes(HelloWorld)

\* C17, as stated: "Hello, world! " followed by U+1F680 is written as 20
\* bytes, the length byte 0x13 and the string's 19 UTF-8 bytes, and is read
\* back as itself.
C17_TwentyBytes ==
    HelloWritten =>
        /\ Len(as_bytes(HelloWorld)) = 19
        /\ Len(ser_data(ser)) = 20
        /\ ser_data(ser) = <<19>> \o as_bytes(HelloWorld)
        /\ (phase = "read" /\ idx = 1) =>
              last.status = "Ok" /\ last.val.s = as_bytes(HelloWorld)

\* C17, amended: the string has 18 UTF-8 bytes (14 of one byte, one of
\* four) and is written as 19 bytes, the length byte 0x12 and those 18; it
\* is read back as itself.
C17_NineteenBytes ==
    HelloWritten =>
        /\ Len(as_bytes(HelloWorld)) = 18
        /\ Len(ser_data(ser)) = 19
        /\ ser_data(ser) = <<18>> \o as_bytes(HelloWorld)
        /\ (phase = "read" /\ idx = 1) =>
              last.status = "Ok" /\ last.val.s = as_bytes(HelloWorld)

C17_Witness ==
    /\ HelloWritten /\ phase = "read" /\ idx = 1
    /\ de.data = <<18, 72, 101, 108, 108, 111, 44, 32, 119, 111, 114, 108,
                   100, 33, 32, 240, 159, 154, 128>>
    /\ last.status = "Ok" /\ last.val.s = as_bytes(HelloWorld)
    /\ position(de) = 19

\* Well-formed UTF-8, by decoding: every sequence a lead byte opens has the
\* continuation bytes its lead calls for, and is the UTF-8 form of the
\* scalar value it spells, a value that is no surrogate and at most
\* U+10FFFF.
LeadWidth(x) ==
    IF x < 128 THEN 1
    ELSE IF x \in 192 .. 223 THEN 2
    ELSE IF x \in 224 .. 239 THEN 3
    ELSE IF x \in 240 .. 247 THEN 4
    ELSE 0
Spelled(b, i, w) ==
    IF w = 1 THEN b[i]
    ELSE IF w = 2 THEN (b[i] % 32) * 64 + (b[i + 1] % 64)
    ELSE IF w = 3 THEN (b[i] % 16) * 4096 + (b[i + 1] % 64) * 64 + (b[i + 2] % 64)
    ELSE (b[i] % 8) * 262144 + (b[i + 1] % 64) * 4096 + (b[i + 2] % 64) * 64
         + (b[i + 3] % 64)
WellFormedUtf8(b) ==
    LET n == Len(b)
        lead(i) == b[i] \notin 128 .. 191
    IN  /\ n > 0 => lead(1)
        /\ \A i \in { j \in 1 .. n : lead(j) } :
               LET w == LeadWidth(b[i])
               IN  /\ w > 0 /\ i + w - 1 <= n
                   /\ \A k \in (i + 1) .. (i + w - 1) : ~lead(k)
                   /\ i + w <= n => lead(i + w)
                   /\ Spelled(b, i, w) \notin 55296 .. 57343
                   /\ Spelled(b, i, w) <= 1114111
                   /\ Utf8Char(Spelled(b, i, w)) = SubSeq(b, i, i + w - 1)

\* The payload the prefix at the last call's cursor delimits lies within
\* the input; the payload.
PayloadInBounds ==
    /\ Prefix.status = "Ok"
    /\ Prefix.val.u \subseteq 0 .. 19
    /\ Prefix.de.pos + ToNat(Prefix.val.u) <= Len(de.data)
Payload ==
    SubSeq(de.data, Prefix.de.pos + 1, Prefix.de.pos + ToNat(Prefix.val.u))

\* C18: with the payload within the input, read_str returns InvalidData
\* exactly when the payload is not well-formed UTF-8 (and the payload
\* otherwise), while read_bytes and read_u8_vec return every payload
\* unchanged.
C18_Utf8Validation ==
    /\ (last.op = "str" /\ PayloadInBounds) =>
          /\ last.status \in {"Ok", "InvalidData"}
          /\ last.status = "InvalidData" <=> ~WellFormedUtf8(Payload)
          /\ last.status = "Ok" => last.val.s = Payload
    /\ (last.op \in {"bytes", "u8_vec"} /\ PayloadInBounds) =>
          last.status = "Ok" /\ last.val.s = Payload

C18_Witness ==
    /\ phase = "fuzz" /\ idx = 1 /\ last.op = "str" /\ PayloadInBounds
    /\ Payload = <<237, 160, 128>>
    /\ last.status = "InvalidData"
    /\ has_data(de)

\* C19: a u128 is written as varint(v >> 64) then varint(v mod 2^64), with no
\* zigzag; reading high then low returns v; 2^128 - 1 takes 20 bytes.
C19_U128 ==
    (Len(log) = 1 /\ log[1].ty.kind = "u128") =>
        LET v == log[1].val.u
        IN  /\ ser_data(ser) =
                   Base128({ i - WordBits : i \in v \ BitIdx })
                   \o Base128(v \cap BitIdx)
            /\ v = U128Max => Len(ser_data(ser)) = 20
            /\ (phase = "read" /\ idx = 1) =>
                  /\ last.status = "Ok"
                  /\ last.val.u = v
                  /\ position(de) = Len(de.data)

C19_Witness ==
    /\ phase = "read" /\ idx = 1 /\ Len(log) = 1 /\ log[1].ty.kind = "u128"
    /\ log[1].val.u = U128Max /\ last.val.u = U128Max
    /\ last.status = "Ok" /\ position(de) = 20

\* C20: a tuple and a derived struct are written as their fields' encodings
\* one after the other in declaration order and nothing else, and read back
\* field by field in that order; the record { a: 0x2A, b: "x",
\* c: (128, 25600), d: [9, 9] } takes the bytes 2A 01 78 80 01 80 C8 01 09 09
\* and is read back as itself.
C20_Composition ==
    (Len(log) = 1 /\ log[1].ty.kind \in {"tuple", "struct"}) =>
        LET T == log[1].ty
            fields == log[1].val.s
        IN  /\ ser_data(ser) =
                   Flatten([k \in 1 .. T.n |-> Encoding(T.args[k], fields[k])])
            /\ (T = RecordTy /\ log[1].val = RecordValue) =>
                   ser_data(ser) = <<42, 1, 120, 128, 1, 128, 200, 1, 9, 9>>
            /\ (phase = "read" /\ idx = 1) =>
                  /\ last.status = "Ok"
                  /\ last.val = log[1].val
                  /\ position(de) = Len(de.data)

C20_Witness ==
    /\ phase = "read" /\ idx = 1 /\ Len(log) = 1
    /\ log[1].ty = RecordTy /\ log[1].val = RecordValue
    /\ de.data = <<42, 1, 120, 128, 1, 128, 200, 1, 9, 9>>
    /\ last.status = "Ok" /\ last.val = RecordValue /\ position(de) = 10

\* A struct without fields, whatever its form.
ZeroFields(input) == input.data = "struct" /\ input.fields = << >>

\* C21: a struct without fields that carries both derives has a serialize
\* that appends no byte and leaves the writer as it was, and a deserialize
\* that consumes no byte and returns the struct.
C21_UnitRecord ==
    /\ \A i \in 1 .. Len(log) :
           (log[i].op = "derive" /\ ZeroFields(log[i].input)) =>
               log[i].tokens = "impl" /\ log[i].n = 0
    /\ (phase = "read" /\ last.op = "derive" /\ ZeroFields(log[last.arg].input)) =>
           /\ last.status = "Ok"
           /\ last.val = Sequ(<< >>)
           /\ position(de) = last.before

\* The same of the structs without fields that are declared with braces or
\* parentheses: those the derives emit an impl for.
C21_EmptyBodied ==
    /\ \A i \in 1 .. Len(log) :
           (log[i].op = "derive" /\ ZeroFields(log[i].input)
            /\ log[i].input.form # "Unit") =>
               log[i].tokens = "impl" /\ log[i].n = 0
    /\ (phase = "read" /\ last.op = "derive" /\ ZeroFields(log[last.arg].input)
        /\ log[last.arg].input.form # "Unit") =>
           /\ last.status = "Ok"
           /\ last.val = Sequ(<< >>)
           /\ position(de) = last.before

\* The encode call the caller recorded as e, issued on the writer w.
Apply(w, e) ==
    CASE e.op = "u8" -> write_u8(w, ToNat(e.val.u))
      [] e.op = "bool" -> write_bool(w, e.val.u # {})
      [] e.op = "varint" -> write_varint(w, e.val.u)
      [] e.op = "signed_varint" -> write_signed_varint(w, e.val.u)
      [] e.op = "f32" -> write_f32(w, e.val.s)
      [] e.op = "f64" -> write_f64(w, e.val.s)
      [] e.op = "str" -> write_str(w, e.val.s)
      [] e.op = "bytes" -> write_bytes(w, e.val.s)
      [] e.op = "u8_vec" -> write_u8_slice(w, e.val.s)
      [] e.op = "u32_vec" -> write_u32_slice(w, e.val.s)
      [] e.op = "bool_vec" -> write_bool_slice(w, e.val.s)
      [] e.op = "u8_array" -> serialize_u8_array(w, e.val.s)

\* The recorded calls issued in order on the writer w.
RECURSIVE Replay(_, _)
Replay(w, es) == IF es = << >> THEN w ELSE Replay(Apply(w, Head(es)), Tail(es))

\* A reset has happened: the writer has seen more calls than the caller's
\* record, which starts afresh at a reset, holds.
AfterReset == phase = "write" /\ calls > Len(log)

\* C22: reset sets the cursor to zero and leaves the length of the buffer as
\* it was, so that data() is empty; the calls issued after a reset give, in
\* data() and in finish(), the bytes the same calls give on a new writer.
C22_Reset ==
    /\ [][Reset => /\ ser'.pos = 0
                   /\ Len(ser'.buffer) = Len(ser.buffer)
                   /\ ser_data(ser') = << >>]_vars
    /\ [](AfterReset =>
            /\ ser_data(ser) = ser_data(Replay(NewSerializer, log))
            /\ finish(ser) = finish(Replay(NewSerializer, log)))

\* A call issued after a reset while a byte of an earlier call, not zero,
\* still lies in the buffer behind the cursor.
C22_Witness ==
    /\ AfterReset /\ Len(log) > 0
    /\ Len(ser.buffer) > ser.pos
    /\ ser.buffer[ser.pos + 1] # 0

\* The length of the buffer after room for r bytes is asked for at cursor c.
Grown(len, c, r) == IF c + r <= len THEN len ELSE Max(c + r, 2 * len)

\* The step is an encode call on the writer.
EncodeStep == calls' = calls + 1

\* Every byte the step added to the buffer behind the bytes written is zero.
TailZeroed ==
    \A i \in (Max(Len(ser.buffer), ser'.pos) + 1) .. Len(ser'.buffer) :
        ser'.buffer[i] = 0

Requests(e) ==
    LET L == Len(e.val.s)
        body(size) == <<[r |-> 10, k |-> e.n - size], [r |-> size, k |-> size]>>
    IN  CASE e.op \in {"u8", "bool"} -> <<[r |-> 1, k |-> 1]>>
          [] e.op \in {"varint", "signed_varint"} -> <<[r |-> 10, k |-> e.n]>>
          [] e.op \in {"f32", "f64"} ->
                 IF e.n = 1 THEN <<[r |-> 1, k |-> 1]>>
                 ELSE <<[r |-> 1, k |-> 1], [r |-> e.n - 1, k |-> e.n - 1]>>
          [] e.op \in {"str", "bytes", "u8_vec"} -> body(L)
          [] e.op = "u32_vec" -> body(4 * L)
          [] e.op = "bool_vec" -> body((L + 7) \div 8)
          [] e.op = "u8_array" -> <<[r |-> L, k |-> L]>>

\* The length of the buffer after the requests rs made from cursor c on.
RECURSIVE GrownBy(_, _, _)
GrownBy(len, c, rs) ==
    IF rs = << >> THEN len
    ELSE GrownBy(Grown(len, c, Head(rs).r), c + Head(rs).k, Tail(rs))

RECURSIVE Alone(_, _, _)
Alone(d, ops, overflow_checks) ==
    IF ops = << >> THEN << >>
    ELSE LET r == Call(Head(ops), d, overflow_checks)
         IN  <<[op |-> Head(ops), status |-> r.status, val |-> r.val,
                pos |-> r.de.pos]>>
             \o Alone(r.de, Tail(ops), overflow_checks)

\* What reader i returned, call by call, and where it stands, are what the
\* same calls give on a reader of its own over the same bytes.
AsAlone(i, d) ==
    /\ trace[i] = Alone(NewDeserializer(d.data),
                        [k \in 1 .. Len(trace[i]) |-> trace[i][k].op],
                        build.overflow_checks)
    /\ d.pos = IF trace[i] = << >> THEN 0 ELSE trace[i][Len(trace[i])].pos

\* C24: two readers over the same bytes do not affect each other: however
\* their calls interleave, each returns what it returns alone and ends at
\* the cursor it ends at alone, and no call changes the bytes or the cursor
\* of the other reader.
C24_IndependentReaders ==
    /\ [](phase = "shared" =>
            /\ AsAlone(1, de)
            /\ AsAlone(2, peer)
            /\ de.data = peer.data)
    /\ [][phase = "shared" =>
            /\ de'.data = de.data
            /\ peer'.data = peer.data
            /\ trace'[1] # trace[1] => peer' = peer
            /\ trace'[2] # trace[2] => de' = de]_vars

\* Both readers have made two calls that succeeded and stand at different
\* cursors.
C24_Witness ==
    /\ phase = "shared"
    /\ Len(trace[1]) = 2 /\ Len(trace[2]) = 2
    /\ \A i \in 1 .. 2 : \A k \in 1 .. 2 : trace[i][k].status = "Ok"
    /\ de.pos > peer.pos /\ peer.pos > 0

\* Byte k (1 the least significant) of a word.
ByteOf(v, k) == SumBits({ i \in 0 .. 7 : 8 * (k - 1) + i \in v })

\* The elements of a u32 sequence written one by one as u32 scalars, behind
\* the varint of their number.
ScalarForm(slice) ==
    Base128(FromNat(Len(slice)))
    \o Flatten([k \in 1 .. Len(slice) |-> Encoding(Ty("u32"), Word(slice[k]))])

\* write_u32_slice gives varint(n) and then the elements' four bytes each,
\* least significant first, and read_u32_vec gives the elements back.
U32SliceLayout ==
    LET slice == log[1].val.s
        n == Len(slice)
    IN  /\ ser_data(ser) =
               Base128(FromNat(n))
               \o [j \in 1 .. 4 * n |->
                     ByteOf(slice[((j - 1) \div 4) + 1], ((j - 1) % 4) + 1)]
        /\ log[1].n = NGroups(FromNat(n)) + 4 * n
        /\ (phase = "read" /\ idx = 1) =>
              /\ last.status = "Ok"
              /\ last.val = Sequ(slice)
              /\ position(de) = Len(de.data)

U32SliceCall == Len(log) = 1 /\ log[1].op = "u32_vec"

\* C25: write_u32_slice appends varint(n) and the 4 * n raw bytes of the
\* elements, least significant byte first, and read_u32_vec returns the
\* elements; the encoding is not the one of varint(n) followed by every
\* element as a u32 scalar: the bytes differ for every sequence with an
\* element in it (of the empty sequence there is the byte 0x00 alone).
C25_U32Slice ==
    U32SliceCall =>
        /\ U32SliceLayout
        /\ log[1].val.s # << >> => ser_data(ser) # ScalarForm(log[1].val.s)
        /\ log[1].val.s = << >> => ser_data(ser) = <<0>>

\* 0x01030204 and 2^32 - 1, written as 02 04 02 03 01 FF FF FF FF, read back.
C25_Witness ==
    /\ phase = "read" /\ idx = 1 /\ U32SliceCall
    /\ log[1].val.s = <<{2, 9, 16, 17, 24}, 0 .. 31>>
    /\ de.data = <<2, 4, 2, 3, 1, 255, 255, 255, 255>>
    /\ last.status = "Ok" /\ last.val = Sequ(log[1].val.s)

\* The word v is a value of the integer type kind, widened: no bit at or
\* above the width of an unsigned type, the sign bit of a signed type in
\* every bit above it.
InRange(v, kind) ==
    IF kind \in UnsignedKinds THEN v \subseteq 0 .. (Width(kind) - 1)
    ELSE \A i \in (Width(kind) - 1) .. (WordBits - 1) :
             (i \in v) <=> ((Width(kind) - 1) \in v)

\* Two words are equal modulo 2^bits.
SameModulo(a, b, bits) == a \cap (0 .. (bits - 1)) = b \cap (0 .. (bits - 1))

ScalarCall == Len(log) = 1 /\ log[1].op = "value" /\ log[1].ty.kind \in
                  UnsignedKinds \cup SignedKinds

\* C26: an integer narrower than 64 bits is written as the varint (the
\* signed varint, of a signed type) of the 64-bit word it widens to, and
\* read back by a cast to the type asked for, unchecked: the value itself
\* when the type is its own, and when the 64-bit value read does not fit
\* the type asked for, Ok with that value modulo 2^width, never an error.
C26_WidenAndTruncate ==
    ScalarCall =>
        LET kind == log[1].ty.kind
            v == log[1].val.u
        IN  /\ InRange(v, kind)
            /\ ser_data(ser) =
                   Base128(IF kind \in SignedKinds THEN ZigZag(v) ELSE v)
            /\ (phase = "read" /\ idx = 1) =>
                  /\ last.status = "Ok"
                  /\ InRange(last.val.u, last.arg.kind)
                  /\ SameModulo(last.val.u, v, Width(last.arg.kind))
                  /\ last.arg.kind = kind => last.val.u = v
                  /\ position(de) = Len(de.data)

\* The i32 -2^31 read as an i8: Ok(0).
C26_Witness ==
    /\ ScalarCall /\ phase = "read" /\ idx = 1
    /\ log[1].ty.kind = "i32" /\ log[1].val.u = 31 .. (WordBits - 1)
    /\ last.arg.kind = "i8" /\ last.status = "Ok" /\ last.val.u = {}

\* The decoders that read a length and then as many elements, one by one.
ElementWise ==
    {"u16_vec", "u64_vec", "i8_vec", "i16_vec", "i64_vec", "f32_vec",
     "f64_vec", "vec"}

\* The last call read a length that does not fit in the input left after
\* it: a payload longer than what is left, or more elements than bytes.
DeclaredTooLong ==
    /\ Prefix.status = "Ok"
    /\ LET left == Len(de.data) - Prefix.de.pos
       IN  IF last.op \in LengthPrefixed
           THEN PayloadExceeds(last.op, Prefix.val.u, left)
           ELSE Gt(Prefix.val.u, FromNat(left))

\* C27: a decoder of a length-prefixed payload that fails with
\* BufferTooSmall because the length does not fit in the input left has
\* checked before consuming: the cursor is right behind the length prefix.
C27_CheckedBeforeConsuming ==
    (/\ last.op \in LengthPrefixed \cup ElementWise
     /\ last.status = "BufferTooSmall"
     /\ DeclaredTooLong)
        => position(de) = Prefix.de.pos

\* The same of the five decoders that compare the length with the input
\* left before they read the payload.
C27_CheckedFive ==
    (/\ last.op \in LengthPrefixed
     /\ last.status = "BufferTooSmall"
     /\ DeclaredTooLong)
        => position(de) = Prefix.de.pos

\* One sequence has been written, through either path.
SequenceCall == Len(log) = 1 /\ log[1].op \in {"slice", "vec"}

\* The bytes the two paths give for the sequence written.
SliceBytes ==
    finish(write_slice_of(log[1].kind, NewSerializer,
                          [i \in 1 .. Len(log[1].val.s) |->
                              SliceElem(log[1].kind, log[1].val.s[i])]))
VecBytes == Encoding(VecTy(Ty(log[1].kind)), log[1].val)

\* The sequence written as the reader of a path returns it: -0.0 as +0.0,
\* and the elements of read_u8_vec, read_u32_vec and read_bool_vec as the
\* bytes, words and bools they are.
ReadBack(path) ==
    LET kind == log[1].kind
        elems == [i \in 1 .. Len(log[1].val.s) |->
                     NormalizedFloat(kind, log[1].val.s[i])]
    IN  IF path = "slice" /\ kind \in {"u8", "u32", "bool"}
        THEN Sequ([i \in 1 .. Len(elems) |-> SliceElem(kind, elems[i])])
        ELSE Sequ(elems)

\* The two paths agree on the sequence written: the same bytes, read back
\* as the sequence by whichever reader.
PathsAgree ==
    /\ SliceBytes = VecBytes
    /\ (phase = "read" /\ idx = 1) =>
          /\ last.status = "Ok"
          /\ last.val = ReadBack(last.op)
          /\ position(de) = Len(de.data)

\* C28: for every element type with a slice writer, the serialize of Vec<T>
\* gives the bytes the slice writer gives, either path's bytes are read
\* back by either path's reader, and a sequence of bools takes
\* ceil(n / 8) bytes behind its length.
C28_PathsAgree ==
    SequenceCall =>
        /\ PathsAgree
        /\ log[1].kind = "bool" =>
               Len(ser_data(ser)) = 1 + ((Len(log[1].val.s) + 7) \div 8)

\* The same of the element types other than bool and u32.
C28_PathsAgreeButBoolU32 ==
    (SequenceCall /\ log[1].kind \notin {"bool", "u32"}) => PathsAgree

\* ---------------------------------------------------------------- C29

\* read_varint has returned Ok on the bytes consumed.
VarintAccepted == last.op = "varint" /\ last.status = "Ok"

\* write_varint of the value read gives back the bytes consumed.
Rewritten == finish(write_varint(NewSerializer, last.val.u)) = Consumed

\* An encoding write_varint produces: no zero group at the end but in the
\* single byte 0x00, and of ten bytes the tenth is 0x01.
Canonical(b) ==
    /\ Len(b) = 1 \/ b[Len(b)] # 0
    /\ Len(b) = 10 => b[10] = 1

\* C29 as stated: read_varint accepts the canonical encoding alone: of
\* every byte sequence on which it returns Ok(v), write_varint(v) gives back
\* the bytes consumed, and encodings padded with zero groups are rejected.
C29_CanonicalOnly == VarintAccepted => Rewritten

\* C29: read_varint accepts every run of at most ten bytes that ends at the
\* first byte with a clear top bit, canonical or not; write_varint of the
\* value read gives back the bytes consumed exactly when they end in a
\* non-zero group (or are the byte 0x00) and, of ten bytes, the tenth is
\* 0x01.
C29_RewrittenIffCanonical ==
    VarintAccepted =>
        /\ Len(Consumed) \in 1 .. 10
        /\ Consumed[Len(Consumed)] < 128
        /\ \A i \in 1 .. (Len(Consumed) - 1) : Consumed[i] >= 128
        /\ Rewritten <=> Canonical(Consumed)

\* 0x80 0x00, the value 0 padded with a zero group, is read as Ok(0).
C29_Witness ==
    /\ VarintAccepted
    /\ Consumed = <<128, 0>>
    /\ last.val.u = {}
    /\ ~Rewritten

\* ---------------------------------------------------------------- C30

\* deserialize::<T> has been called on a slice and on the slice followed by
\* extra bytes.
DataCall == phase = "data" /\ idx = 1

\* C30: deserialize::<T>(data) decodes T from the start of data and leaves
\* what follows alone: where it returns Ok(v) on a slice, it returns Ok(v)
\* on the slice followed by any extra bytes, having read as far as before
\* and no further, with the extra bytes unread and no error for them.
C30_TrailingIgnored ==
    (DataCall /\ trace[1][1].status = "Ok") =>
        /\ trace[2][1].status = "Ok"
        /\ trace[2][1].val = trace[1][1].val
        /\ trace[2][1].pos = trace[1][1].pos
        /\ trace[2][1].pos <= Len(peer.data)
        /\ Len(peer.data) < Len(de.data)
        /\ has_data(de)

\* The record { a: 0x2A, b: "x", c: (128, 25600), d: [9, 9] } is decoded from
\* its nine bytes followed by 80 01, which stay unread.
C30_Witness ==
    /\ DataCall
    /\ last.arg = RecordTy
    /\ trace[1][1].status = "Ok"
    /\ position(peer) = Len(peer.data)
    /\ de.data = peer.data \o <<128, 1>>
    /\ last.status = "Ok"
    /\ last.val = RecordValue
    /\ position(de) = Len(de.data) - 2

====
